---- MODULE Spec2Model ----
(***************************************************************************)
(* A model of pycpidr's CPIDR idea-density rater: the entry point          *)
(* rate_text (idea_density_rater.py), the sequence builder WordList        *)
(* (word_item.py), the rule pass apply_idea_counting_rules with its seven  *)
(* rule groups (idea_density_rater_rules.py) and the lookup helpers        *)
(* (utils/word_search_utils.py).                                           *)
(*                                                                         *)
(* Tokens are strings; indices are 0-based as in the Python source, and    *)
(* At(wl, k) reads Python's wl[k], negative indices included.  The tagger  *)
(* (spaCy) is external: a text is represented by the (token, tag) pairs    *)
(* the tagger returns for it.                                              *)
(*                                                                         *)
(* idea_density_rater_rules.py imports the sentence-start helper under     *)
(* the name is_beginning_of_sentence; word_search_utils.py defines it as   *)
(* beginning_of_sentence.  The model resolves the name to that function.   *)
(***************************************************************************)
EXTENDS Integers, Sequences, FiniteSets, TLC

VARIABLES
    text_kind,      \* the argument text: "none" (None), "nonstring", "str"
    tagged_text,    \* what the tagger returns for the text (when it is a str)
    speech_mode,    \* the argument speech_mode
    installed,      \* whether the spaCy model en_core_web_sm can be loaded
    nlp,            \* tagger._nlp: "None" or "model"
    pc,             \* position inside rate_text
    word_list,      \* word_list.items
    i,              \* the cursor of apply_idea_counting_rules
    next_oid,       \* identity given to the next WordListItem constructed
    exc,            \* the exception raised inside the try block, or "none"
    result,         \* the returned tuple, or NoResult
    nlp_oid,        \* identity of the object tagger._nlp refers to, 0 for None
    loads,          \* how many models spacy.load has returned so far
    callers,        \* the threads calling get_nlp: position, locals, outcome
    finished        \* what the earlier calls in this process were given and returned

vars == <<text_kind, tagged_text, speech_mode, installed, nlp, pc,
          word_list, i, next_oid, exc, result, nlp_oid, loads, callers,
          finished>>

\* the state of the tagger module beyond _nlp being set or not
tagger_vars == <<nlp_oid, loads, callers>>

----------------------------------------------------------------------------
(* Bounds of the model *)

\* longest tagged input explored
MaxLen == 4

\* inserted copies explored beyond one copy per input item
ExtraCopies == 2

\* most tokens explored after a cardinal
MaxAhead == 6

\* most tokens explored between 'for' and 'to'
MaxGap == 10

\* threads that call get_nlp
MaxThreads == 2

\* calls of get_nlp explored per thread
MaxCalls == 2

\* calls of rate_text explored in one process
MaxRuns == 3

----------------------------------------------------------------------------
(* utils/constants.py *)

PUNCTUATION == {":", ",", "."}
ADJECTIVES == {"JJ", "JJR", "JJS"}
ADVERBS == {"RB", "RBR", "RBS", "WRB"}
VERBS == {"VB", "VBD", "VBG", "VBN", "VBP", "VBZ"}
NOUNS == {"NN", "NNS", "NNP", "NNPS"}
INTERROGATIVES == {"WDT", "WP", "WPS", "WRB"}

DEFAULT_PROPOSITIONS ==
    {"CC", "CD", "DT", "IN", "JJ", "JJR", "JJS", "PDT", "POS", "PRP$", "PP$",
     "RB", "RBR", "RBS", "TO", "VB", "VBD", "VBG", "VBN", "VBP", "VBZ",
     "WDT", "WP", "WPS", "WRB"}

FILLER == {"and", "or", "but", "if", "that", "just", "you", "know"}

BE == {"am", "is", "are", "was", "were", "being", "been"}

\* "don't" "don't" in the source is one literal, "don'tdon't"
NT == {"didn't", "didnt", "don'tdon't", "dont", "can't", "cant", "couldn't",
       "couldnt", "won't", "wont", "wouldn't", "wouldnt"}

AUXILIARY_VERBS ==
    {"be", "am", "is", "are", "was", "were", "being", "been", "have", "has",
     "had", "having", "do", "does", "did", "need", "dare"}

LINKING_VERBS ==
    {"be", "am", "is", "are", "was", "were", "been", "being",
     "become", "becomes", "became", "becoming",
     "get", "gets", "got", "gotten", "getting",
     "look", "looks", "looked", "looking",
     "seem", "seems", "seemed", "seeming",
     "appear", "appears", "appeared", "appearing",
     "sound", "sounds", "sounded", "sounding",
     "feel", "feels", "felt", "feeling",
     "smell", "smells", "smelled", "smelling",
     "taste", "tastes", "tasted", "tasting"}

CAUSATIVE_LINKING_VERBS ==
    {"make", "makes", "made", "making", "turn", "turns", "turned", "turning",
     "paint", "paints", "painted", "painting"}

CORRELATING_CONJUNCTIONS == {"both", "either", "neither"}

NEGATIVE_POLARITY_1 == {"yet", "much", "many", "any", "anymore"}

NEGATIVE_POLARITY_2 == {"unless"}

SENTENCE_END == "."

MAX_LOOKAHEAD == 5

MAX_LOOKBACK == 10

DEFAULT_ITEM_COUNT == 10

----------------------------------------------------------------------------
(* Python string operations used by the rules *)

LowerLetters == "abcdefghijklmnopqrstuvwxyz"
UpperLetters == "ABCDEFGHIJKLMNOPQRSTUVWXYZ"
Digits == "0123456789"

CharAt(s, k) == SubSeq(s, k, k)

CharsOf(s) == {CharAt(s, k) : k \in 1..Len(s)}

\* str.isalnum() of a one-character string (ASCII letters and digits)
isalnum(c) == c \in (CharsOf(LowerLetters) \cup CharsOf(UpperLetters) \cup CharsOf(Digits))

LowerChar(c) ==
    IF \E k \in 1..Len(UpperLetters) : CharAt(UpperLetters, k) = c
    THEN CharAt(LowerLetters, CHOOSE k \in 1..Len(UpperLetters) : CharAt(UpperLetters, k) = c)
    ELSE c

RECURSIVE lower(_)
\* str.lower()
lower(s) == IF s = "" THEN "" ELSE LowerChar(Head(s)) \o lower(Tail(s))

\* str.endswith(suffix)
endswith(s, suffix) ==
    /\ Len(s) >= Len(suffix)
    /\ SubSeq(s, Len(s) - Len(suffix) + 1, Len(s)) = suffix

\* str.startswith(prefix)
startswith(s, prefix) ==
    /\ Len(s) >= Len(prefix)
    /\ SubSeq(s, 1, Len(prefix)) = prefix

Max(a, b) == IF a >= b THEN a ELSE b

Min(a, b) == IF a <= b THEN a ELSE b

RECURSIVE LCSLen(_, _)
\* length of a longest common subsequence
LCSLen(a, b) ==
    IF a = "" \/ b = "" THEN 0
    ELSE IF Head(a) = Head(b) THEN 1 + LCSLen(Tail(a), Tail(b))
    ELSE Max(LCSLen(Tail(a), b), LCSLen(a, Tail(b)))

\* Levenshtein.ratio(a, b) >= threshold, for the threshold 0.8 of is_repetition:
\* ratio = (len(a) + len(b) - indel distance) / (len(a) + len(b))
\*       = 2 * LCS / (len(a) + len(b))
RatioAtLeastThreshold(a, b) ==
    10 * LCSLen(a, b) >= 4 * (Len(a) + Len(b))

----------------------------------------------------------------------------
(* word_item.py *)

\* WordListItem.__init__; oid is the identity of the Python object
WordListItem(token, tag, is_word, is_proposition, rule_number, oid) ==
    [token |-> token, tag |-> tag, is_word |-> is_word,
     is_proposition |-> is_proposition, rule_number |-> rule_number,
     lowercase_token |-> lower(token), oid |-> oid]

\* WordListItem() with all defaults
BlankItem == WordListItem("", "", FALSE, FALSE, 0, 0)

\* WordList.__init__ as in the earlier python_cpidr package: the sentinels are
\* added on one branch only, here never for an empty text
WordList_NoSentinelsWhenEmpty(tagged) ==
    [k \in 1..(IF Len(tagged) = 0 THEN 0 ELSE DEFAULT_ITEM_COUNT + Len(tagged)) |->
        IF k <= DEFAULT_ITEM_COUNT
        THEN BlankItem
        ELSE WordListItem(tagged[k - DEFAULT_ITEM_COUNT][1],
                          tagged[k - DEFAULT_ITEM_COUNT][2],
                          FALSE, FALSE, 0, k - DEFAULT_ITEM_COUNT)]

\* WordList.__init__: [WordListItem()] * 10 is ten references to ONE object
\* (oid 0), followed by one new item per tagged word (oids 1..n)
WordList(tagged) ==
    [k \in 1..(DEFAULT_ITEM_COUNT + Len(tagged)) |->
        IF k <= DEFAULT_ITEM_COUNT
        THEN BlankItem
        ELSE WordListItem(tagged[k - DEFAULT_ITEM_COUNT][1],
                          tagged[k - DEFAULT_ITEM_COUNT][2],
                          FALSE, FALSE, 0, k - DEFAULT_ITEM_COUNT)]

----------------------------------------------------------------------------
(* Python list operations on word_list.items *)

\* position (1-based) of Python index k, negative indices counting from the end
PyIndex(wl, k) == IF k < 0 THEN Len(wl) + k + 1 ELSE k + 1

\* wl[k]
At(wl, k) == wl[PyIndex(wl, k)]

\* assignment to attributes of the object wl[k]: every reference to that
\* object sees the new value
SetItem(wl, k, item) ==
    [m \in 1..Len(wl) |-> IF wl[m].oid = At(wl, k).oid THEN item ELSE wl[m]]

\* del wl[k] for 0 <= k < len(wl)
DelAt(wl, k) ==
    [m \in 1..(Len(wl) - 1) |-> IF m < k + 1 THEN wl[m] ELSE wl[m + 1]]

\* del wl[a:b] for 0 <= a <= b
DelSlice(wl, a, b) ==
    LET hi == Min(b, Len(wl))
        lo == Min(a, hi)
    IN  SubSeq(wl, 1, lo) \o SubSeq(wl, hi + 1, Len(wl))

\* wl.insert(k, item) for 0 <= k
InsertAt(wl, k, item) ==
    LET p == Min(k, Len(wl))
    IN  SubSeq(wl, 1, p) \o <<item>> \o SubSeq(wl, p + 1, Len(wl))

----------------------------------------------------------------------------
(* utils/word_search_utils.py *)

\* the value None of an Optional result that is otherwise a list index
None == -1

RECURSIVE BosScan(_, _)
\* the while loop of beginning_of_sentence: the final value of j
BosScan(wl, j) ==
    IF j > 0 /\ At(wl, j).tag # SENTENCE_END /\ At(wl, j).tag # ""
    THEN BosScan(wl, j - 1)
    ELSE j

beginning_of_sentence(wl, k) == BosScan(wl, k - 1) + 1

\* the common short words is_repetition never treats as fuzzy repetitions
CommonShortWords ==
    {"the", "a", "an", "and", "or", "but", "in", "on", "at", "to", "for"}

is_repetition(first, second) ==
    IF first = "" \/ second = "" THEN FALSE
    ELSE LET f == lower(first)
             s == lower(second)
         IN  IF f = s THEN TRUE
             ELSE IF endswith(f, "-")
             THEN LET stem == SubSeq(f, 1, Len(f) - 1)
                  IN  startswith(s, stem) /\ Len(s) - Len(stem) <= 6
             ELSE /\ RatioAtLeastThreshold(f, s)
                  /\ Len(f) > 3
                  /\ f \notin CommonShortWords

RECURSIVE SearchFrom(_, _, _, _)
\* the for loop of search_backwards from index j down to (excluding) stop;
\* the result is the index of the item returned, or None
SearchFrom(wl, j, stop, matches) ==
    IF j <= stop THEN None
    ELSE IF At(wl, j).tag = SENTENCE_END \/ At(wl, j).tag = "" THEN None
    ELSE IF j \in matches THEN j
    ELSE SearchFrom(wl, j - 1, stop, matches)

\* range(i - 1, max(i - MAX_LOOKBACK, -1), -1); the condition is given as
\* matches, the set of the indices whose item satisfies it
search_backwards(wl, k, matches) ==
    SearchFrom(wl, k - 1, Max(k - MAX_LOOKBACK, -1), matches)

----------------------------------------------------------------------------
(* idea_density_rater_rules.py: identify_words_and_adjust_tags *)

\* the pair (word_list, i) a rule works on and hands to the next rule
Pass(wl, k) == [wl |-> wl, i |-> k]

\* rule 001 recording its number without retagging the item
Rule001_NoRetag(st) ==
    LET word == At(st.wl, st.i)
    IN  IF word.token = "^"
        THEN Pass(SetItem(st.wl, st.i, [word EXCEPT !.rule_number = 1]), st.i)
        ELSE st

\* 001: the token "^" is a sentence end
Rule001(st) ==
    LET word == At(st.wl, st.i)
    IN  IF word.token = "^"
        THEN Pass(SetItem(st.wl, st.i,
                 [word EXCEPT !.tag = SENTENCE_END, !.rule_number = 1]), st.i)
        ELSE st

\* 002: a token starting with a letter or digit, not tagged SYM, is a word
Rule002(st) ==
    LET word == At(st.wl, st.i)
    IN  IF isalnum(CharAt(word.token, 1)) /\ word.tag # "SYM"
        THEN Pass(SetItem(st.wl, st.i,
                 [word EXCEPT !.is_word = TRUE, !.rule_number = 2]), st.i)
        ELSE st

\* rule 003 keeping the current item and deleting the previous slot
Rule003_DeleteBehind(st) ==
    LET word == At(st.wl, st.i)
        previous == At(st.wl, st.i - 1)
    IN  IF word.tag = "CD" /\ previous.tag = "CD"
        THEN LET wl1 == SetItem(st.wl, st.i,
                     [word EXCEPT !.token = previous.token \o " " \o word.token,
                                  !.rule_number = 3])
             IN  Pass(DelAt(wl1, st.i - 1), st.i - 1)
        ELSE st

\* rule 003 joining the two tokens without the space
Rule003_NoSpace(st) ==
    LET word == At(st.wl, st.i)
        previous == At(st.wl, st.i - 1)
    IN  IF word.tag = "CD" /\ previous.tag = "CD"
        THEN LET wl1 == SetItem(st.wl, st.i - 1,
                     [previous EXCEPT !.token = previous.token \o word.token,
                                      !.rule_number = 3])
             IN  Pass(DelAt(wl1, st.i), st.i - 1)
        ELSE st

\* rule 003 firing on any item before a cardinal
Rule003_AnyPrevious(st) ==
    LET word == At(st.wl, st.i)
        previous == At(st.wl, st.i - 1)
    IN  IF word.tag = "CD"
        THEN LET wl1 == SetItem(st.wl, st.i - 1,
                     [previous EXCEPT !.token = previous.token \o " " \o word.token,
                                      !.rule_number = 3])
             IN  Pass(DelAt(wl1, st.i), st.i - 1)
        ELSE st

\* 003: two cardinals in immediate succession are combined; token is
\* assigned without recomputing lowercase_token
Rule003(st) ==
    LET word == At(st.wl, st.i)
        previous == At(st.wl, st.i - 1)
    IN  IF word.tag = "CD" /\ previous.tag = "CD"
        THEN LET wl1 == SetItem(st.wl, st.i - 1,
                     [previous EXCEPT !.token = previous.token \o " " \o word.token,
                                      !.rule_number = 3])
             IN  Pass(DelAt(wl1, st.i), st.i - 1)
        ELSE st

\* rule 004 deleting one slot instead of the slice of two
Rule004_DeleteOne(st) ==
    LET word == At(st.wl, st.i)
        previous == At(st.wl, st.i - 1)
        two_words_back == At(st.wl, st.i - 2)
    IN  IF /\ word.tag = "CD"
           /\ Len(previous.token) > 0
           /\ ~isalnum(CharAt(previous.token, 1))
           /\ two_words_back.tag = "CD"
        THEN LET wl1 == SetItem(st.wl, st.i - 2,
                     [two_words_back EXCEPT
                         !.token = two_words_back.token \o previous.token \o word.token,
                         !.rule_number = 4])
             IN  Pass(DelAt(wl1, st.i - 1), st.i - 2)
        ELSE st

\* rule 004 deleting two items and stepping the cursor back by three
Rule004_StepsBackThree(st) ==
    LET word == At(st.wl, st.i)
        previous == At(st.wl, st.i - 1)
        two_words_back == At(st.wl, st.i - 2)
    IN  IF /\ word.tag = "CD"
           /\ Len(previous.token) > 0
           /\ ~isalnum(CharAt(previous.token, 1))
           /\ two_words_back.tag = "CD"
        THEN LET wl1 == SetItem(st.wl, st.i - 2,
                     [two_words_back EXCEPT
                         !.token = two_words_back.token \o previous.token \o word.token,
                         !.rule_number = 4])
             IN  Pass(DelSlice(wl1, st.i - 1, st.i + 1), st.i - 3)
        ELSE st

\* 004: cardinal + nonalphanumeric + cardinal are combined
Rule004(st) ==
    LET word == At(st.wl, st.i)
        previous == At(st.wl, st.i - 1)
        two_words_back == At(st.wl, st.i - 2)
    IN  IF /\ word.tag = "CD"
           /\ Len(previous.token) > 0
           /\ ~isalnum(CharAt(previous.token, 1))
           /\ two_words_back.tag = "CD"
        THEN LET wl1 == SetItem(st.wl, st.i - 2,
                     [two_words_back EXCEPT
                         !.token = two_words_back.token \o previous.token \o word.token,
                         !.rule_number = 4])
             IN  Pass(DelSlice(wl1, st.i - 1, st.i + 1), st.i - 2)
        ELSE st

\* the blanking the repetition rules apply to an item
Blanked(item, rule) ==
    [item EXCEPT !.tag = "", !.is_word = FALSE, !.is_proposition = FALSE,
                 !.rule_number = rule]

\* rule 020 leaving the first occurrence in the word count, as the comment
\* above the rule has it
Rule020_KeepsWord(st, sm) ==
    IF sm /\ is_repetition(At(st.wl, st.i - 1).token, At(st.wl, st.i).token)
    THEN Pass(SetItem(st.wl, st.i - 1,
             [At(st.wl, st.i - 1) EXCEPT !.tag = "", !.is_proposition = FALSE,
                                         !.rule_number = 20]), st.i)
    ELSE st

\* 020: "A A" is simplified to "A"
Rule020(st, sm) ==
    IF sm /\ is_repetition(At(st.wl, st.i - 1).token, At(st.wl, st.i).token)
    THEN Pass(SetItem(st.wl, st.i - 1, Blanked(At(st.wl, st.i - 1), 20)), st.i)
    ELSE st

\* 021, 022: "A Punct A" and "A B A"
Rule022(st, sm) ==
    IF /\ sm
       /\ is_repetition(At(st.wl, st.i - 2).token, At(st.wl, st.i).token)
       /\ At(st.wl, st.i).tag \notin PUNCTUATION
    THEN LET wl1 == SetItem(st.wl, st.i - 2, Blanked(At(st.wl, st.i - 2), 22))
         IN  IF At(wl1, st.i - 1).tag \in PUNCTUATION
             THEN Pass(SetItem(wl1, st.i - 1, Blanked(At(wl1, st.i - 1), 21)), st.i)
             ELSE Pass(wl1, st.i)
    ELSE st

\* 023: "A B Punct A B"
Rule023(st, sm) ==
    IF /\ sm
       /\ is_repetition(At(st.wl, st.i - 3).token, At(st.wl, st.i).token)
       /\ is_repetition(At(st.wl, st.i - 4).token, At(st.wl, st.i - 1).token)
       /\ At(st.wl, st.i - 2).tag \in PUNCTUATION
    THEN LET wl1 == SetItem(st.wl, st.i - 4, Blanked(At(st.wl, st.i - 4), 23))
             wl2 == SetItem(wl1, st.i - 3, Blanked(At(wl1, st.i - 3), 23))
             wl3 == SetItem(wl2, st.i - 2, Blanked(At(wl2, st.i - 2), 23))
         IN  Pass(wl3, st.i)
    ELSE st

\* rule 050 recognising the word 'not' only
Rule050_NotOnly(st) ==
    LET word == At(st.wl, st.i)
    IN  IF word.lowercase_token = "not"
        THEN Pass(SetItem(st.wl, st.i,
                 [word EXCEPT !.is_proposition = TRUE, !.tag = "NOT",
                              !.rule_number = 50]), st.i)
        ELSE st

\* 050: 'not' and words ending in "n't" are propositions tagged NOT
Rule050(st) ==
    LET word == At(st.wl, st.i)
    IN  IF \/ word.lowercase_token = "not"
           \/ endswith(word.lowercase_token, "n't")
           \/ word.lowercase_token \in NT
        THEN Pass(SetItem(st.wl, st.i,
                 [word EXCEPT !.is_proposition = TRUE, !.tag = "NOT",
                              !.rule_number = 50]), st.i)
        ELSE st

\* the membership test of rule 054 written on the tag of the item
ItemInTagSet_ByTag(item, tags) == item.tag \in tags

\* "word in VERBS" with word a WordListItem and VERBS a frozenset of str:
\* a WordListItem hashes and compares by identity and equals no string
ItemInTagSet(item, tags) == FALSE

\* 054: 'that'/'this' before a verb or adverb is a pronoun
Rule054(st) ==
    LET word == At(st.wl, st.i)
        previous == At(st.wl, st.i - 1)
    IN  IF /\ (previous.lowercase_token = "that" \/ previous.lowercase_token = "this")
           /\ (ItemInTagSet(word, VERBS) \/ ItemInTagSet(word, ADVERBS))
        THEN Pass(SetItem(st.wl, st.i - 1,
                 [previous EXCEPT !.tag = "PRP", !.rule_number = 54,
                                  !.is_proposition = FALSE]), st.i)
        ELSE st

identify_words_and_adjust_tags(wl, k, sm) ==
    Rule054(Rule050(Rule023(Rule022(Rule020(
        Rule004(Rule003(Rule002(Rule001(Pass(wl, k))))), sm), sm), sm)))

----------------------------------------------------------------------------
(* idea_density_rater_rules.py: adjust_word_order *)

RECURSIVE TargetScan_VerbsOnly(_, _)
\* the forward scan halting at verbs only, not at a sentence end
TargetScan_VerbsOnly(wl, t) ==
    IF t < Len(wl)
    THEN IF At(wl, t).tag \in VERBS
         THEN t
         ELSE TargetScan_VerbsOnly(wl, t + 1)
    ELSE t

RECURSIVE TargetScan(_, _)
\* the while loop that finds where to move the auxiliary: the final
\* value of target_position
TargetScan(wl, t) ==
    IF t < Len(wl)
    THEN IF At(wl, t).tag = SENTENCE_END \/ At(wl, t).tag \in VERBS
         THEN t
         ELSE TargetScan(wl, t + 1)
    ELSE t

\* rule 101 applying to an auxiliary wherever it stands in its sentence
InversionApplies_AnyPosition(wl, k) ==
    /\ At(wl, k).lowercase_token \in AUXILIARY_VERBS
    /\ TargetScan(wl, k + 1) > k + 1

\* whether rule 101 applies to the item at k
InversionApplies(wl, k) ==
    /\ At(wl, k).lowercase_token \in AUXILIARY_VERBS
    /\ LET sentence_start == beginning_of_sentence(wl, k)
       IN  sentence_start = k \/ At(wl, sentence_start).tag \in INTERROGATIVES
    /\ TargetScan(wl, k + 1) > k + 1

\* rule 101 inserting the copy behind the item the scan halted at
adjust_word_order_InsertBehind(wl, k, sm, oid) ==
    IF InversionApplies(wl, k)
    THEN LET word == At(wl, k)
             target_position == TargetScan(wl, k + 1)
             wl1 == InsertAt(wl, target_position + 1,
                        WordListItem(word.token, word.tag, TRUE, TRUE, 101, oid))
         IN  Pass(SetItem(wl1, k,
                 [word EXCEPT !.tag = "", !.is_proposition = FALSE,
                              !.is_word = FALSE,
                              !.token = word.token \o "/moved"]), k)
    ELSE Pass(wl, k)

\* 101: subject-aux inversion; oid is the identity of the inserted item
adjust_word_order(wl, k, sm, oid) ==
    IF InversionApplies(wl, k)
    THEN LET word == At(wl, k)
             target_position == TargetScan(wl, k + 1)
             wl1 == InsertAt(wl, target_position,
                        WordListItem(word.token, word.tag, TRUE, TRUE, 101, oid))
         IN  Pass(SetItem(wl1, k,
                 [word EXCEPT !.tag = "", !.is_proposition = FALSE,
                              !.is_word = FALSE,
                              !.token = word.token \o "/moved"]), k)
    ELSE Pass(wl, k)

----------------------------------------------------------------------------
(* idea_density_rater_rules.py: identify_potential_propositions *)

\* item with is_proposition and rule_number assigned
Marked(item, is_proposition, rule) ==
    [item EXCEPT !.is_proposition = is_proposition, !.rule_number = rule]

\* 200: tags that are propositions by default
Rule200(st) ==
    IF At(st.wl, st.i).tag \in DEFAULT_PROPOSITIONS
    THEN Pass(SetItem(st.wl, st.i, Marked(At(st.wl, st.i), TRUE, 200)), st.i)
    ELSE st

\* 201: articles are not propositions
Rule201(st) ==
    IF At(st.wl, st.i).lowercase_token \in {"the", "an", "a"}
    THEN Pass(SetItem(st.wl, st.i, Marked(At(st.wl, st.i), FALSE, 201)), st.i)
    ELSE st

\* the lambda handed to search_backwards
IsCorrelating(wl) == {j \in 0..(Len(wl) - 1) : At(wl, j).lowercase_token \in CORRELATING_CONJUNCTIONS}

\* 203: the first word of a correlating conjunction is not a proposition
Rule203(st) ==
    LET word == At(st.wl, st.i)
    IN  IF word.tag = "CC" /\ word.lowercase_token \notin CORRELATING_CONJUNCTIONS
        THEN LET target == search_backwards(st.wl, st.i, IsCorrelating(st.wl))
             IN  IF target # None
                 THEN Pass(SetItem(st.wl, target, Marked(At(st.wl, target), FALSE, 203)), st.i)
                 ELSE st
        ELSE st

\* 204: "and then", "or else"
Rule204(st) ==
    LET word == At(st.wl, st.i)
        previous == At(st.wl, st.i - 1)
    IN  IF \/ (previous.lowercase_token = "and" /\ word.lowercase_token = "then")
           \/ (previous.lowercase_token = "or" /\ word.lowercase_token = "else")
        THEN Pass(SetItem(st.wl, st.i, Marked(word, FALSE, 204)), st.i)
        ELSE st

\* 206: "to" as last word of a sentence is not a proposition
Rule206(st) ==
    IF At(st.wl, st.i).tag = SENTENCE_END /\ At(st.wl, st.i - 1).tag = "TO"
    THEN Pass(SetItem(st.wl, st.i - 1, Marked(At(st.wl, st.i - 1), FALSE, 206)), st.i)
    ELSE st

\* 207: a modal as last word of a sentence is a proposition
Rule207(st) ==
    IF At(st.wl, st.i).tag = SENTENCE_END /\ At(st.wl, st.i - 1).tag = "MD"
    THEN Pass(SetItem(st.wl, st.i - 1, Marked(At(st.wl, st.i - 1), TRUE, 207)), st.i)
    ELSE st

RECURSIVE NounAhead_PastSentenceEnd(_, _, _)
\* the loop of rule 210 without the break at a sentence end
NounAhead_PastSentenceEnd(wl, j, stop) ==
    IF j >= stop THEN FALSE
    ELSE IF At(wl, j).tag \in NOUNS THEN TRUE
    ELSE NounAhead_PastSentenceEnd(wl, j + 1, stop)

RECURSIVE NounAhead(_, _, _)
\* the for loop of rule 210 over range(j, stop): TRUE iff a noun is met
\* before a sentence end
NounAhead(wl, j, stop) ==
    IF j >= stop THEN FALSE
    ELSE IF At(wl, j).tag = SENTENCE_END THEN FALSE
    ELSE IF At(wl, j).tag \in NOUNS THEN TRUE
    ELSE NounAhead(wl, j + 1, stop)

\* 210: a cardinal is a proposition only if a noun follows within 5 words
Rule210(st) ==
    IF At(st.wl, st.i).tag = "CD"
    THEN Pass(SetItem(st.wl, st.i,
             Marked(At(st.wl, st.i),
                    NounAhead(st.wl, st.i + 1,
                              Min(Len(st.wl), st.i + MAX_LOOKAHEAD + 1)),
                    210)), st.i)
    ELSE st

\* the lambda handed to search_backwards
IsNot(wl) == {j \in 0..(Len(wl) - 1) : At(wl, j).tag = "NOT"}

\* rule 211 marking the current item instead of the earlier negative
Rule211_MarksCurrent(st) ==
    IF At(st.wl, st.i).lowercase_token \in NEGATIVE_POLARITY_2
    THEN LET target == search_backwards(st.wl, st.i, IsNot(st.wl))
         IN  IF target # None
             THEN Pass(SetItem(st.wl, st.i, Marked(At(st.wl, st.i), FALSE, 211)), st.i)
             ELSE st
    ELSE st

\* 211: 'not...unless': the earlier negative is not a proposition
Rule211(st) ==
    IF At(st.wl, st.i).lowercase_token \in NEGATIVE_POLARITY_2
    THEN LET target == search_backwards(st.wl, st.i, IsNot(st.wl))
         IN  IF target # None
             THEN Pass(SetItem(st.wl, target, Marked(At(st.wl, target), FALSE, 211)), st.i)
             ELSE st
    ELSE st

\* 212: 'not...any': this word is not a proposition
Rule212(st) ==
    IF At(st.wl, st.i).lowercase_token \in NEGATIVE_POLARITY_1
    THEN LET target == search_backwards(st.wl, st.i, IsNot(st.wl))
         IN  IF target # None
             THEN Pass(SetItem(st.wl, st.i, Marked(At(st.wl, st.i), FALSE, 212)), st.i)
             ELSE st
    ELSE st

\* 213: "going to" before a verb is not a proposition
Rule213(st) ==
    IF /\ At(st.wl, st.i).tag \in VERBS
       /\ At(st.wl, st.i - 1).lowercase_token = "to"
       /\ At(st.wl, st.i - 2).lowercase_token = "going"
    THEN LET wl1 == SetItem(st.wl, st.i - 1, Marked(At(st.wl, st.i - 1), FALSE, 213))
         IN  Pass(SetItem(wl1, st.i - 2, Marked(At(wl1, st.i - 2), FALSE, 213)), st.i)
    ELSE st

\* the lambda handed to search_backwards
IsIf(wl) == {j \in 0..(Len(wl) - 1) : At(wl, j).lowercase_token = "if"}

\* 214: "if ... then (word)" is one conjunction
Rule214(st) ==
    IF At(st.wl, st.i).is_word /\ At(st.wl, st.i - 1).lowercase_token = "then"
    THEN LET target == search_backwards(st.wl, st.i, IsIf(st.wl))
         IN  IF target # None
             THEN Pass(SetItem(st.wl, st.i - 1, Marked(At(st.wl, st.i - 1), FALSE, 214)), st.i)
             ELSE st
    ELSE st

\* 225: "each other" is a pronoun
Rule225(st) ==
    IF /\ At(st.wl, st.i).lowercase_token = "other"
       /\ At(st.wl, st.i - 1).lowercase_token = "each"
    THEN LET wl1 == SetItem(st.wl, st.i - 1,
                 [At(st.wl, st.i - 1) EXCEPT !.tag = "PRP", !.is_proposition = FALSE,
                                             !.rule_number = 225])
         IN  Pass(SetItem(wl1, st.i,
                 [At(wl1, st.i) EXCEPT !.tag = "PRP", !.is_proposition = FALSE,
                                       !.rule_number = 225]), st.i)
    ELSE st

\* 230: "how come", "how many"
Rule230(st) ==
    IF /\ At(st.wl, st.i).lowercase_token \in {"come", "many"}
       /\ At(st.wl, st.i - 1).lowercase_token = "how"
    THEN Pass(SetItem(st.wl, st.i,
             [At(st.wl, st.i) EXCEPT !.is_proposition = FALSE,
                                     !.tag = At(st.wl, st.i - 1).tag,
                                     !.rule_number = 230]), st.i)
    ELSE st

identify_potential_propositions(wl, k, sm) ==
    Rule230(Rule225(Rule214(Rule213(Rule212(Rule211(Rule210(Rule207(Rule206(
        Rule204(Rule203(Rule201(Rule200(Pass(wl, k))))))))))))))

----------------------------------------------------------------------------
(* idea_density_rater_rules.py: handle_linking_verbs *)

\* 301: a linking verb followed by an adjective or adverb
Rule301(st) ==
    IF /\ (At(st.wl, st.i).tag \in ADJECTIVES \/ At(st.wl, st.i).tag \in ADVERBS)
       /\ At(st.wl, st.i - 1).lowercase_token \in LINKING_VERBS
    THEN Pass(SetItem(st.wl, st.i - 1, Marked(At(st.wl, st.i - 1), FALSE, 301)), st.i)
    ELSE st

\* 302: "be" followed by a preposition
Rule302(st) ==
    IF At(st.wl, st.i).tag = "IN" /\ At(st.wl, st.i - 1).lowercase_token \in BE
    THEN Pass(SetItem(st.wl, st.i - 1, Marked(At(st.wl, st.i - 1), FALSE, 302)), st.i)
    ELSE st

\* rule 310 counting the adverb only
Rule310_AdverbOnly(st) ==
    IF /\ At(st.wl, st.i).tag \in {"DT", "PDT"}
       /\ At(st.wl, st.i - 1).tag \in ADVERBS
       /\ At(st.wl, st.i - 2).lowercase_token \in LINKING_VERBS
    THEN Pass(SetItem(st.wl, st.i - 1, Marked(At(st.wl, st.i - 1), TRUE, 310)), st.i)
    ELSE st

\* 310: linking verb + adverb + {PDT, DT} is two propositions
Rule310(st) ==
    IF /\ At(st.wl, st.i).tag \in {"DT", "PDT"}
       /\ At(st.wl, st.i - 1).tag \in ADVERBS
       /\ At(st.wl, st.i - 2).lowercase_token \in LINKING_VERBS
    THEN LET wl1 == SetItem(st.wl, st.i - 1, Marked(At(st.wl, st.i - 1), TRUE, 310))
         IN  Pass(SetItem(wl1, st.i - 2, Marked(At(wl1, st.i - 2), TRUE, 310)), st.i)
    ELSE st

\* the lambda handed to search_backwards
IsCausative(wl) == {j \in 0..(Len(wl) - 1) : At(wl, j).lowercase_token \in CAUSATIVE_LINKING_VERBS}

\* 311: an adjective after a causative linking verb
Rule311(st) ==
    IF At(st.wl, st.i).tag \in ADJECTIVES
    THEN LET target == search_backwards(st.wl, st.i, IsCausative(st.wl))
         IN  IF target # None
             THEN Pass(SetItem(st.wl, st.i, Marked(At(st.wl, st.i), FALSE, 311)), st.i)
             ELSE st
    ELSE st

handle_linking_verbs(wl, k, sm) ==
    Rule311(Rule310(Rule302(Rule301(Pass(wl, k)))))

----------------------------------------------------------------------------
(* idea_density_rater_rules.py: handle_auxiliary_verbs *)

\* 401: aux + not is one proposition
Rule401(st) ==
    IF /\ At(st.wl, st.i).lowercase_token = "not"
       /\ At(st.wl, st.i - 1).lowercase_token \in AUXILIARY_VERBS
    THEN Pass(SetItem(st.wl, st.i - 1, Marked(At(st.wl, st.i - 1), FALSE, 401)), st.i)
    ELSE st

\* 402: aux + verb is one proposition
Rule402(st) ==
    IF /\ At(st.wl, st.i).tag \in VERBS
       /\ At(st.wl, st.i - 1).lowercase_token \in AUXILIARY_VERBS
    THEN Pass(SetItem(st.wl, st.i - 1, Marked(At(st.wl, st.i - 1), FALSE, 402)), st.i)
    ELSE st

\* rule 405 marking the NOT/adverb item instead of the auxiliary
Rule405_MarksPrevious(st) ==
    IF /\ At(st.wl, st.i).tag \in VERBS
       /\ (At(st.wl, st.i - 1).tag = "NOT" \/ At(st.wl, st.i - 1).tag \in ADVERBS)
       /\ At(st.wl, st.i - 2).lowercase_token \in AUXILIARY_VERBS
    THEN Pass(SetItem(st.wl, st.i - 1, Marked(At(st.wl, st.i - 1), FALSE, 405)), st.i)
    ELSE st

\* 405: aux + NOT/adverb + verb
Rule405(st) ==
    IF /\ At(st.wl, st.i).tag \in VERBS
       /\ (At(st.wl, st.i - 1).tag = "NOT" \/ At(st.wl, st.i - 1).tag \in ADVERBS)
       /\ At(st.wl, st.i - 2).lowercase_token \in AUXILIARY_VERBS
    THEN Pass(SetItem(st.wl, st.i - 2, Marked(At(st.wl, st.i - 2), FALSE, 405)), st.i)
    ELSE st

handle_auxiliary_verbs(wl, k, sm) ==
    Rule405(Rule402(Rule401(Pass(wl, k))))

----------------------------------------------------------------------------
(* idea_density_rater_rules.py: handle_constructions_involving_to *)

\* rule 510 clearing the word flag of 'to' instead of its proposition flag
Rule510_ClearsWord(st) ==
    IF At(st.wl, st.i).tag = "VB" /\ At(st.wl, st.i - 1).tag = "TO"
    THEN Pass(SetItem(st.wl, st.i - 1,
             [At(st.wl, st.i - 1) EXCEPT !.is_word = FALSE, !.rule_number = 510]), st.i)
    ELSE st

\* 510: TO VB is one proposition
Rule510(st) ==
    IF At(st.wl, st.i).tag = "VB" /\ At(st.wl, st.i - 1).tag = "TO"
    THEN Pass(SetItem(st.wl, st.i - 1, Marked(At(st.wl, st.i - 1), FALSE, 510)), st.i)
    ELSE st

\* the lambda handed to search_backwards
IsFor(wl) == {j \in 0..(Len(wl) - 1) : At(wl, j).lowercase_token = "for"}

\* rule 511 applying before any verb form, not the base form only
Rule511_AnyVerb(st) ==
    IF At(st.wl, st.i).tag \in VERBS /\ At(st.wl, st.i - 1).tag = "TO"
    THEN LET target == search_backwards(st.wl, st.i, IsFor(st.wl))
         IN  IF target # None
             THEN Pass(SetItem(st.wl, target, Marked(At(st.wl, target), FALSE, 511)), st.i)
             ELSE st
    ELSE st

\* 511: "for ... TO VB": "for" is not a proposition
Rule511(st) ==
    IF At(st.wl, st.i).tag = "VB" /\ At(st.wl, st.i - 1).tag = "TO"
    THEN LET target == search_backwards(st.wl, st.i, IsFor(st.wl))
         IN  IF target # None
             THEN Pass(SetItem(st.wl, target, Marked(At(st.wl, target), FALSE, 511)), st.i)
             ELSE st
    ELSE st

handle_constructions_involving_to(wl, k, sm) ==
    Rule511(Rule510(Pass(wl, k)))

----------------------------------------------------------------------------
(* idea_density_rater_rules.py: handle_fillers *)

\* item blanked as a filler: tag and proposition flag cleared, is_word kept
Filler(item, rule) ==
    [item EXCEPT !.tag = "", !.is_proposition = FALSE, !.rule_number = rule]

\* rule 610 blanking from one item before the sentence start
Rule610_FromBoundary(st) ==
    IF At(st.wl, st.i).tag = SENTENCE_END
    THEN LET bos == beginning_of_sentence(st.wl, st.i)
             k == Cardinality({j \in bos..(st.i - 1) :
                     /\ At(st.wl, j).tag # "UH"
                     /\ At(st.wl, j).lowercase_token \notin FILLER})
         IN  IF k = 0
             THEN Pass([m \in 1..Len(st.wl) |->
                          IF \E j \in (bos - 1)..(st.i - 1) : st.wl[m].oid = At(st.wl, j).oid
                          THEN Filler(st.wl[m], 610)
                          ELSE st.wl[m]], st.i)
             ELSE st
    ELSE st

\* 610: a sentence made only of filler words is propositionless
Rule610(st) ==
    IF At(st.wl, st.i).tag = SENTENCE_END
    THEN LET bos == beginning_of_sentence(st.wl, st.i)
             k == Cardinality({j \in bos..(st.i - 1) :
                     /\ At(st.wl, j).tag # "UH"
                     /\ At(st.wl, j).lowercase_token \notin FILLER})
         IN  IF k = 0
             THEN Pass([m \in 1..Len(st.wl) |->
                          IF \E j \in bos..(st.i - 1) : st.wl[m].oid = At(st.wl, j).oid
                          THEN Filler(st.wl[m], 610)
                          ELSE st.wl[m]], st.i)
             ELSE st
    ELSE st

\* 632: "like" not preceded by a form of "be" is a filler
Rule632(st) ==
    IF /\ At(st.wl, st.i).lowercase_token = "like"
       /\ At(st.wl, st.i - 1).lowercase_token \notin BE
    THEN Pass(SetItem(st.wl, st.i, Filler(At(st.wl, st.i), 632)), st.i)
    ELSE st

\* rule 634 without the step back of the cursor
Rule634_NoStepBack(st) ==
    IF /\ st.i > 0
       /\ At(st.wl, st.i - 1).lowercase_token = "you"
       /\ At(st.wl, st.i).lowercase_token = "know"
    THEN LET wl1 == DelAt(st.wl, st.i)
         IN  Pass(SetItem(wl1, st.i - 1,
                 [At(wl1, st.i - 1) EXCEPT !.token = "you_know", !.tag = "",
                                           !.is_proposition = FALSE,
                                           !.is_word = TRUE,
                                           !.rule_number = 634]), st.i)
    ELSE st

\* 634: "you know" is a filler and counts as one word
Rule634(st) ==
    IF /\ st.i > 0
       /\ At(st.wl, st.i - 1).lowercase_token = "you"
       /\ At(st.wl, st.i).lowercase_token = "know"
    THEN LET wl1 == DelAt(st.wl, st.i)
         IN  Pass(SetItem(wl1, st.i - 1,
                 [At(wl1, st.i - 1) EXCEPT !.token = "you_know", !.tag = "",
                                           !.is_proposition = FALSE,
                                           !.is_word = TRUE,
                                           !.rule_number = 634]), st.i - 1)
    ELSE st

\* the filler rules applied whatever the mode
handle_fillers_Always(wl, k, sm) ==
    Rule634(Rule632(Rule610(Pass(wl, k))))

handle_fillers(wl, k, sm) ==
    IF ~sm THEN Pass(wl, k)
    ELSE Rule634(Rule632(Rule610(Pass(wl, k))))

----------------------------------------------------------------------------
(* idea_density_rater.py *)

RECURSIVE CountWhere(_, _)
\* sum(1 for word in items if <flag>), flags being the sequence of the flag
CountWhere(flags, n) ==
    IF n = 0 THEN 0
    ELSE CountWhere(flags, n - 1) + (IF flags[n] THEN 1 ELSE 0)

\* both sums taken over is_word
count_words_and_propositions_SameFlag(wl) ==
    <<CountWhere([k \in 1..Len(wl) |-> wl[k].is_word], Len(wl)),
      CountWhere([k \in 1..Len(wl) |-> wl[k].is_word], Len(wl))>>

\* count_words_and_propositions: (word_count, proposition_count)
count_words_and_propositions(wl) ==
    <<CountWhere([k \in 1..Len(wl) |-> wl[k].is_word], Len(wl)),
      CountWhere([k \in 1..Len(wl) |-> wl[k].is_proposition], Len(wl))>>

\* a float that is the quotient of two integers, kept as the exact fraction
Quotient(num, den) == [num |-> num, den |-> den]

\* the float 0.0
Zero == Quotient(0, 1)

\* density = proposition_count / word_count if word_count > 0 else 0.0
Density(word_count, proposition_count) ==
    IF word_count > 0 THEN Quotient(proposition_count, word_count) ELSE Zero

\* the tuple rate_text returns; word_list is "WordList" when the fourth
\* element is the WordList object (its items are word_list) and "None" when
\* it is None
ResultTuple(word_count, proposition_count, density, wl) ==
    [word_count |-> word_count, proposition_count |-> proposition_count,
     density |-> density, word_list |-> wl]

\* the except clause returning an empty WordList instead of None
FailureResult_WithList == ResultTuple(0, 0, Zero, "WordList")

\* the tuple returned by the except clause: 0, 0, 0.0, None
FailureResult == ResultTuple(0, 0, Zero, "None")

\* no tuple has been returned yet
NoResult == ResultTuple(-1, -1, Zero, "pending")

\* the largest list the model lets the rule pass build
MaxItems == DEFAULT_ITEM_COUNT + 2 * MaxLen + ExtraCopies

----------------------------------------------------------------------------
(* The texts rate_text is called with *)

\* all tagged texts of at most MaxLen tokens over a vocabulary
Inputs(vocabulary) == UNION {[1..n -> vocabulary] : n \in 0..MaxLen}

\* a thread that has not called get_nlp: pc is its position in get_nlp, calls
\* the calls it has made, local the object spacy.load returned to it, got
\* the object its last call returned (0: none) and outcome how that call ended
IdleCaller == [pc |-> "idle", calls |-> 0, local |-> 0, got |-> 0, outcome |-> "none"]

\* rate_text is the only caller of the tagger
NoCallers == [t \in 1..MaxThreads |-> IdleCaller]

\* a call of rate_text: the argument, the tagging of the text and the
\* environment (the spaCy model installed or not, not yet loaded)
InitWith(texts) ==
    /\ text_kind \in {"none", "nonstring", "str"}
    /\ installed \in BOOLEAN
    /\ speech_mode \in BOOLEAN
    /\ tagged_text \in (IF text_kind = "str" /\ installed THEN texts ELSE {<<>>})
    /\ nlp = "None"
    /\ pc = "call"
    /\ word_list = <<>>
    /\ i = 0
    /\ next_oid = 1
    /\ exc = "none"
    /\ result = NoResult
    /\ nlp_oid = 0
    /\ loads = 0
    /\ callers = NoCallers
    /\ finished = <<>>

----------------------------------------------------------------------------
(* rate_text, statement by statement *)

\* if text is None: return 0, 0, 0.0, WordList([])
ReturnForNone ==
    /\ pc = "call"
    /\ text_kind = "none"
    /\ word_list' = WordList(<<>>)
    /\ result' = ResultTuple(0, 0, Zero, "WordList")
    /\ pc' = "returned"
    /\ UNCHANGED <<text_kind, tagged_text, speech_mode, installed, nlp, i,
                   next_oid, exc>>
    /\ UNCHANGED <<tagger_vars, finished>>

\* tag_text: raise TypeError("Input text must be a string.")
TagTextTypeError ==
    /\ pc = "call"
    /\ text_kind = "nonstring"
    /\ exc' = "TypeError"
    /\ pc' = "except"
    /\ UNCHANGED <<text_kind, tagged_text, speech_mode, installed, nlp,
                   word_list, i, next_oid, result>>
    /\ UNCHANGED <<tagger_vars, finished>>

\* tag_text -> get_nlp: spacy.load fails, OSError naming the model is raised
\* and _nlp stays None
GetNlpOSError ==
    /\ pc = "call"
    /\ text_kind = "str"
    /\ nlp = "None"
    /\ ~installed
    /\ exc' = "OSError"
    /\ pc' = "except"
    /\ UNCHANGED <<text_kind, tagged_text, speech_mode, installed, nlp,
                   word_list, i, next_oid, result>>
    /\ UNCHANGED <<tagger_vars, finished>>

\* tag_text returns the tagged tokens; get_nlp loads the model if needed
TagText ==
    /\ pc = "call"
    /\ text_kind = "str"
    /\ nlp = "model" \/ installed
    /\ nlp' = "model"
    /\ loads' = IF nlp = "None" THEN loads + 1 ELSE loads
    /\ nlp_oid' = IF nlp = "None" THEN loads + 1 ELSE nlp_oid
    /\ pc' = "build"
    /\ UNCHANGED <<text_kind, tagged_text, speech_mode, installed,
                   word_list, i, next_oid, exc, result, callers, finished>>

\* a rule pass that starts where the cursor of the previous one stopped
Build_KeepsCursor ==
    /\ pc = "build"
    /\ word_list' = WordList(tagged_text)
    /\ next_oid' = Len(tagged_text) + 1
    /\ pc' = "loop"
    /\ UNCHANGED <<text_kind, tagged_text, speech_mode, installed, nlp,
                   exc, result, i>>
    /\ UNCHANGED <<tagger_vars, finished>>

\* word_list = WordList(tagged_text); the rule pass starts with i = 0
Build ==
    /\ pc = "build"
    /\ word_list' = WordList(tagged_text)
    /\ next_oid' = Len(tagged_text) + 1
    /\ i' = 0
    /\ pc' = "loop"
    /\ UNCHANGED <<text_kind, tagged_text, speech_mode, installed, nlp,
                   exc, result>>
    /\ UNCHANGED <<tagger_vars, finished>>

\* while i < len(word_list): an item with an empty token is skipped
LoopSkip ==
    /\ pc = "loop"
    /\ i < Len(word_list)
    /\ At(word_list, i).token = ""
    /\ i' = i + 1
    /\ UNCHANGED <<text_kind, tagged_text, speech_mode, installed, nlp, pc,
                   word_list, next_oid, exc, result>>
    /\ UNCHANGED <<tagger_vars, finished>>

\* while i < len(word_list): the rule functions are run on a live item
LoopEnter ==
    /\ pc = "loop"
    /\ i < Len(word_list)
    /\ At(word_list, i).token # ""
    /\ Len(word_list) <= MaxItems
    /\ pc' = "A"
    /\ UNCHANGED <<text_kind, tagged_text, speech_mode, installed, nlp,
                   word_list, i, next_oid, exc, result>>
    /\ UNCHANGED <<tagger_vars, finished>>

\* i = rule_function(word_list, i, speech_mode) for one rule function
RunGroup(at, st, then) ==
    /\ pc = at
    /\ word_list' = st.wl
    /\ i' = st.i
    /\ pc' = then
    /\ UNCHANGED <<text_kind, tagged_text, speech_mode, installed, nlp,
                   exc, result>>
    /\ UNCHANGED <<tagger_vars, finished>>

GroupA ==
    /\ RunGroup("A", identify_words_and_adjust_tags(word_list, i, speech_mode), "B")
    /\ UNCHANGED next_oid

GroupB ==
    /\ RunGroup("B", adjust_word_order(word_list, i, speech_mode, next_oid), "C")
    /\ next_oid' = IF InversionApplies(word_list, i) THEN next_oid + 1 ELSE next_oid

GroupC ==
    /\ RunGroup("C", identify_potential_propositions(word_list, i, speech_mode), "D")
    /\ UNCHANGED next_oid

GroupD ==
    /\ RunGroup("D", handle_linking_verbs(word_list, i, speech_mode), "E")
    /\ UNCHANGED next_oid

GroupE ==
    /\ RunGroup("E", handle_auxiliary_verbs(word_list, i, speech_mode), "F")
    /\ UNCHANGED next_oid

GroupF ==
    /\ RunGroup("F", handle_constructions_involving_to(word_list, i, speech_mode), "G")
    /\ UNCHANGED next_oid

\* the last rule function, then i += 1
GroupG ==
    /\ LET st == handle_fillers(word_list, i, speech_mode)
       IN  RunGroup("G", Pass(st.wl, st.i + 1), "loop")
    /\ UNCHANGED next_oid

\* the while loop ends
LoopExit ==
    /\ pc = "loop"
    /\ i >= Len(word_list)
    /\ pc' = "count"
    /\ UNCHANGED <<text_kind, tagged_text, speech_mode, installed, nlp,
                   word_list, i, next_oid, exc, result>>
    /\ UNCHANGED <<tagger_vars, finished>>

\* count, compute the density and return
CountAndReturn ==
    /\ pc = "count"
    /\ LET counts == count_words_and_propositions(word_list)
       IN  result' = ResultTuple(counts[1], counts[2],
                                 Density(counts[1], counts[2]), "WordList")
    /\ pc' = "returned"
    /\ UNCHANGED <<text_kind, tagged_text, speech_mode, installed, nlp,
                   word_list, i, next_oid, exc>>
    /\ UNCHANGED <<tagger_vars, finished>>

\* except Exception: log and return 0, 0, 0.0, None
Except ==
    /\ pc = "except"
    /\ result' = FailureResult
    /\ pc' = "returned"
    /\ UNCHANGED <<text_kind, tagged_text, speech_mode, installed, nlp,
                   word_list, i, next_oid, exc>>
    /\ UNCHANGED <<tagger_vars, finished>>

Next ==
    \/ ReturnForNone
    \/ TagTextTypeError
    \/ GetNlpOSError
    \/ TagText
    \/ Build
    \/ LoopSkip
    \/ LoopEnter
    \/ GroupA
    \/ GroupB
    \/ GroupC
    \/ GroupD
    \/ GroupE
    \/ GroupF
    \/ GroupG
    \/ LoopExit
    \/ CountAndReturn
    \/ Except

----------------------------------------------------------------------------
(* Specifications: the same program on different families of texts *)

\* short texts with words, a possessive, a cardinal and a sentence end
Vocabulary ==
    {<<"Are", "VBP">>, <<"'s", "POS">>, <<"cats", "NNS">>, <<"4", "CD">>,
     <<".", ".">>}

Init == InitWith(Inputs(Vocabulary))

Spec == Init /\ [][Next]_vars

\* questions and auxiliaries
InversionVocabulary ==
    {<<"Is", "VBZ">>, <<"need", "NN">>, <<"now", "RB">>, <<"the", "DT">>,
     <<"Why", "WRB">>, <<"going", "VBG">>, <<"?", ".">>}

InitInversion == InitWith(Inputs(InversionVocabulary))

SpecInversion == InitInversion /\ [][Next]_vars

\* cardinals and their separators
CardinalVocabulary ==
    {<<"1", "CD">>, <<"2", "CD">>, <<".5", "CD">>, <<"/", "SYM">>,
     <<"cats", "NNS">>, <<".", ".">>}

InitCardinal == InitWith(Inputs(CardinalVocabulary))

SpecCardinal == InitCardinal /\ [][Next]_vars

\* the tagging of "This is 1 2 a sentence with numbers." (test_two_numbers)
TwoNumbers ==
    <<<<"This", "DT">>, <<"is", "VBZ">>, <<"1", "CD">>, <<"2", "CD">>,
      <<"a", "DT">>, <<"sentence", "NN">>, <<"with", "IN">>,
      <<"numbers", "NNS">>, <<".", ".">>>>

\* the texts of the rater's scenario tests
ScenarioTexts ==
    {TwoNumbers, <<<<"4", "CD">>>>, <<<<"Are", "VBP">>>>}

InitScenario == InitWith(ScenarioTexts)

SpecScenario == InitScenario /\ [][Next]_vars

\* spoken language: fillers, an interjection, 'like' and 'you know'
SpeechVocabulary ==
    {<<"and", "CC">>, <<"You", "PRP">>, <<"know", "VBP">>, <<"like", "IN">>,
     <<"um", "UH">>, <<"cats", "NNS">>, <<".", ".">>}

\* a phrase repeated after a punctuation mark ("A B Punct A B")
RepeatedPhrase ==
    <<<<"um", "UH">>, <<"cats", "NNS">>, <<".", ".">>, <<"um", "UH">>,
      <<"cats", "NNS">>>>

InitSpeech == InitWith(Inputs(SpeechVocabulary) \cup {RepeatedPhrase})

SpecSpeech == InitSpeech /\ [][Next]_vars

\* what follows a cardinal: determiners, nouns and sentence ends
AheadVocabulary == {<<"the", "DT">>, <<"cats", "NNS">>, <<".", ".">>}

\* a cardinal, alone or as the 'many' of "how many"
CardinalHeads ==
    {<<<<"4", "CD">>>>, <<<<"how", "WRB">>, <<"many", "CD">>>>}

\* a cardinal followed by at most MaxAhead tokens
LookaheadTexts ==
    {head \o tail : head \in CardinalHeads,
                    tail \in UNION {[1..n -> AheadVocabulary] : n \in 0..MaxAhead}}

InitLookahead == InitWith(LookaheadTexts)

SpecLookahead == InitLookahead /\ [][Next]_vars

\* texts on which every structural edit happens: the inversion rule
\* inserts, the cardinal rules and the 'you know' rule delete
EditVocabulary ==
    {<<"Is", "VBZ">>, <<"1", "CD">>, <<"/", "SYM">>, <<"You", "PRP">>,
     <<"know", "VBP">>}

InitEdits == InitWith(Inputs(EditVocabulary))

SpecEdits == InitEdits /\ [][Next]_vars

----------------------------------------------------------------------------
(* Builder + rule pass run a second time on the outcome of a finished pass *)

\* the (token, tag) pairs of the items after the sentinels
TokenTagPairs(wl) ==
    [k \in 1..(Len(wl) - DEFAULT_ITEM_COUNT) |->
        <<wl[k + DEFAULT_ITEM_COUNT].token, wl[k + DEFAULT_ITEM_COUNT].tag>>]

\* the pairs of a finished non-speech pass are handed to WordList and
\* apply_idea_counting_rules again; text_kind "pairs" marks the second run,
\* result keeps the tuple of the first run until the second one returns
RunAgain ==
    /\ pc = "returned"
    /\ exc = "none"
    /\ text_kind = "str"
    /\ ~speech_mode
    /\ tagged_text' = TokenTagPairs(word_list)
    /\ text_kind' = "pairs"
    /\ pc' = "build"
    /\ UNCHANGED <<speech_mode, installed, nlp, word_list, i, next_oid, exc,
                   result>>
    /\ UNCHANGED <<tagger_vars, finished>>

NextRunAgain ==
    \/ Next
    \/ RunAgain

\* questions, cardinals and nouns
RunAgainVocabulary ==
    {<<"Is", "VBZ">>, <<"the", "DT">>, <<"1", "CD">>, <<"2", "CD">>,
     <<"cats", "NNS">>, <<"?", ".">>}

InitRunAgain == InitWith(Inputs(RunAgainVocabulary))

SpecRunAgain == InitRunAgain /\ [][NextRunAgain]_vars

\* what the rule groups hand to each other: a caret that rule 001 retags,
\* cardinals that rule 003 merges, and the 'to' and the modal that rules
\* 206/207 look for before a sentence end
OrderVocabulary ==
    {<<"1", "CD">>, <<"cats", "NNS">>, <<"^", "SYM">>, <<"to", "TO">>,
     <<"can", "MD">>}

InitOrder == InitWith(Inputs(OrderVocabulary))

SpecOrder == InitOrder /\ [][Next]_vars

\* an auxiliary that is itself verb-tagged, a determiner, an interrogative
\* and a sentence end
StatementVocabulary ==
    {<<"Are", "VBP">>, <<"the", "DT">>, <<"Why", "WRB">>, <<".", ".">>}

InitStatement == InitWith(Inputs(StatementVocabulary))

SpecStatement == InitStatement /\ [][Next]_vars

\* patterns of the classification groups: a linking verb and auxiliary,
\* 'to' before a base-form verb, "how many", and a plain noun
ClassifyVocabulary ==
    {<<"is", "VBZ">>, <<"go", "VB">>, <<"to", "TO">>, <<"cats", "NNS">>,
     <<"how", "WRB">>, <<"many", "JJ">>}

InitClassify == InitWith(Inputs(ClassifyVocabulary))

SpecClassify == InitClassify /\ [][Next]_vars

\* repetitions: the same word in another case, a misspelt and a broken-off
\* form of a word, and a cardinal
RepetitionVocabulary ==
    {<<"The", "DT">>, <<"the", "DT">>, <<"cats", "NNS">>, <<"catss", "NNS">>,
     <<"ca-", "NN">>, <<"4", "CD">>}

InitRepetition == InitWith(Inputs(RepetitionVocabulary))

SpecRepetition == InitRepetition /\ [][Next]_vars

\* articles under several tags, an adjective and a noun
ArticleVocabulary ==
    {<<"the", "DT">>, <<"An", "DT">>, <<"a", "CD">>, <<"a", "NN">>,
     <<"big", "JJ">>, <<"cats", "NNS">>}

InitArticle == InitWith(Inputs(ArticleVocabulary))

SpecArticle == InitArticle /\ [][Next]_vars

\* linking verbs, an adverb, a determiner and a predeterminer
LinkingVocabulary ==
    {<<"seems", "VBZ">>, <<"is", "VBZ">>, <<"now", "RB">>, <<"the", "DT">>,
     <<"all", "PDT">>, <<"cats", "NNS">>}

InitLinking == InitWith(Inputs(LinkingVocabulary))

SpecLinking == InitLinking /\ [][Next]_vars

\* an auxiliary, 'not' in two cases, an adverb, a participle and a noun
AuxiliaryVocabulary ==
    {<<"cats", "NNS">>, <<"has", "VBZ">>, <<"not", "RB">>, <<"NOT", "RB">>,
     <<"always", "RB">>, <<"gone", "VBN">>}

InitAuxiliary == InitWith(Inputs(AuxiliaryVocabulary))

SpecAuxiliary == InitAuxiliary /\ [][Next]_vars

----------------------------------------------------------------------------
(* Long sentences: "for ... to go" with the 'for' up to MaxGap + 2 items back *)

\* n nouns in a row
Nouns(n) == [k \in 1..n |-> <<"cats", "NNS">>]

\* what may stand among the nouns: a second 'for', a sentence end, and
\* 'like', which rule 632 blanks in speech mode
GapSpecials == {<<"for", "IN">>, <<".", ".">>, <<"like", "IN">>}

\* at most MaxGap tokens, nouns with at most one special among them
Gaps ==
    {Nouns(n) : n \in 0..MaxGap}
        \cup {Nouns(ab[1]) \o <<special>> \o Nouns(ab[2]) :
                   ab \in {c \in (0..MaxGap) \X (0..MaxGap) : c[1] + c[2] < MaxGap},
                   special \in GapSpecials}

LookbackTexts ==
    {<<<<"for", "IN">>>> \o gap \o <<<<"to", "TO">>, <<"go", "VB">>>> : gap \in Gaps}

InitLookback == InitWith(LookbackTexts)

\* while i < len(word_list), on a list longer than MaxItems: no copy has been
\* inserted, so the list is a long text and not a list that keeps growing
LoopEnterLong ==
    /\ pc = "loop"
    /\ i < Len(word_list)
    /\ At(word_list, i).token # ""
    /\ Len(word_list) > MaxItems
    /\ next_oid = Len(tagged_text) + 1
    /\ pc' = "A"
    /\ UNCHANGED <<text_kind, tagged_text, speech_mode, installed, nlp,
                   word_list, i, next_oid, exc, result>>
    /\ UNCHANGED <<tagger_vars, finished>>

NextLookback ==
    \/ Next
    \/ LoopEnterLong

SpecLookback == InitLookback /\ [][NextLookback]_vars

----------------------------------------------------------------------------
(* Negative-polarity pairs, in short texts and with the negative up to
   MaxGap + 1 items back *)

\* a negative, the two kinds of polarity words, "how many", a noun and a
\* sentence end
NegativeVocabulary ==
    {<<"not", "RB">>, <<"unless", "IN">>, <<"any", "DT">>, <<"many", "JJ">>,
     <<"how", "WRB">>, <<"cats", "NNS">>, <<".", ".">>}

\* 'not', n nouns, a polarity word and a noun
FarNegatives ==
    {<<<<"not", "RB">>>> \o Nouns(n) \o <<w, <<"cats", "NNS">>>> :
         n \in 0..MaxGap, w \in {<<"unless", "IN">>, <<"any", "DT">>}}

InitNegative == InitWith(Inputs(NegativeVocabulary) \cup FarNegatives)

SpecNegative == InitNegative /\ [][NextLookback]_vars

----------------------------------------------------------------------------
(* Negations among auxiliaries and polarity words *)

\* 'not', a contraction, an informal contraction, an auxiliary and the two
\* kinds of polarity words
NegationVocabulary ==
    {<<"not", "RB">>, <<"Don't", "VBP">>, <<"cant", "MD">>, <<"is", "VBZ">>,
     <<"any", "DT">>, <<"unless", "IN">>}

InitNegation == InitWith(Inputs(NegationVocabulary))

SpecNegation == InitNegation /\ [][Next]_vars

----------------------------------------------------------------------------
(* 'to' constructions, in short texts and in the long sentences *)

\* 'for', 'to', a base-form and an inflected verb, a noun and a sentence end
ToVocabulary ==
    {<<"for", "IN">>, <<"to", "TO">>, <<"go", "VB">>, <<"goes", "VBZ">>,
     <<"cats", "NNS">>, <<".", ".">>}

InitTo == InitWith(Inputs(ToVocabulary) \cup LookbackTexts)

SpecTo == InitTo /\ [][NextLookback]_vars

----------------------------------------------------------------------------
(* rate_text called several times in one process: the module state (_nlp)
   and whatever the previous call left behind are still there *)

\* a text on which the pass inserts a copy and deletes merged items
OtherText ==
    <<<<"Is", "VBZ">>, <<"the", "DT">>, <<"1", "CD">>, <<"1", "CD">>,
      <<"You", "PRP">>, <<"know", "VBP">>, <<".", ".">>>>

\* the record of a call: its arguments and what it returned
Finished ==
    [pairs |-> tagged_text, speech |-> speech_mode, items |-> word_list,
     counts |-> result]

\* rate_text has returned and is called again in the same process: with
\* the arguments of the first call of the process, or on OtherText in
\* either mode
CallAgain ==
    /\ pc = "returned"
    /\ exc = "none"
    /\ text_kind = "str"
    /\ Len(finished) < MaxRuns - 1
    /\ finished' = Append(finished, Finished)
    /\ \/ /\ tagged_text' = finished'[1].pairs
          /\ speech_mode' = finished'[1].speech
       \/ /\ tagged_text' = OtherText
          /\ speech_mode' \in BOOLEAN
    /\ pc' = "call"
    /\ UNCHANGED <<text_kind, installed, nlp, word_list, i, next_oid, exc,
                   result, tagger_vars>>

NextReplay ==
    \/ Next
    \/ CallAgain

\* an auxiliary that is moved and a determiner that is repeated
ReplayVocabulary == {<<"Is", "VBZ">>, <<"the", "DT">>}

InitReplay == InitWith(Inputs(ReplayVocabulary))

SpecReplay == InitReplay /\ [][NextReplay]_vars

----------------------------------------------------------------------------
(* tagger.py: get_nlp called from several threads.  A thread can be
   suspended between any two steps of get_nlp: after the test of _nlp,
   inside spacy.load, and between spacy.load returning and the store to
   _nlp. *)

Threads == 1..MaxThreads

\* what rate_text works on; get_nlp touches none of it
rate_vars ==
    <<text_kind, tagged_text, speech_mode, pc, word_list, i, next_oid, exc,
      result, finished>>

\* thread t enters get_nlp
GetNlpCall(t) ==
    /\ callers[t].pc = "idle"
    /\ callers[t].calls < MaxCalls
    /\ callers' = [callers EXCEPT ![t].pc = "test", ![t].calls = @ + 1,
                                  ![t].outcome = "none"]
    /\ UNCHANGED <<rate_vars, installed, nlp, nlp_oid, loads>>

\* get_nlp loading whatever _nlp holds
GetNlpTest_AlwaysLoad(t) ==
    /\ callers[t].pc = "test"
    /\ callers' = [callers EXCEPT ![t].pc = "load"]
    /\ UNCHANGED <<rate_vars, installed, nlp, nlp_oid, loads>>

\* if _nlp is None:
GetNlpTest(t) ==
    /\ callers[t].pc = "test"
    /\ callers' = [callers EXCEPT
                      ![t].pc = IF nlp = "None" THEN "load" ELSE "return"]
    /\ UNCHANGED <<rate_vars, installed, nlp, nlp_oid, loads>>

\* spacy.load("en_core_web_sm") returns a new model object
SpacyLoad(t) ==
    /\ callers[t].pc = "load"
    /\ installed
    /\ loads' = loads + 1
    /\ callers' = [callers EXCEPT ![t].pc = "assign", ![t].local = loads + 1]
    /\ UNCHANGED <<rate_vars, installed, nlp, nlp_oid>>

\* spacy.load raises OSError; get_nlp raises OSError("The 'en_core_web_sm'
\* model is not installed. ...") and stores nothing
SpacyLoadFails(t) ==
    /\ callers[t].pc = "load"
    /\ ~installed
    /\ callers' = [callers EXCEPT ![t].pc = "idle", ![t].outcome = "OSError"]
    /\ UNCHANGED <<rate_vars, installed, nlp, nlp_oid, loads>>

\* _nlp = <the object spacy.load returned>
GetNlpAssign(t) ==
    /\ callers[t].pc = "assign"
    /\ nlp' = "model"
    /\ nlp_oid' = callers[t].local
    /\ callers' = [callers EXCEPT ![t].pc = "return"]
    /\ UNCHANGED <<rate_vars, installed, loads>>

\* return _nlp: the global is read again
GetNlpReturn(t) ==
    /\ callers[t].pc = "return"
    /\ callers' = [callers EXCEPT ![t].pc = "idle", ![t].got = nlp_oid,
                                  ![t].outcome = "model"]
    /\ UNCHANGED <<rate_vars, installed, nlp, nlp_oid, loads>>

\* the environment: the model is installed, as the error message asks
\* (python -m spacy download en_core_web_sm)
InstallModel ==
    /\ ~installed
    /\ installed' = TRUE
    /\ UNCHANGED <<rate_vars, nlp, nlp_oid, loads, callers>>

NextTagger ==
    \/ \E t \in Threads : GetNlpCall(t)
    \/ \E t \in Threads : GetNlpTest(t)
    \/ \E t \in Threads : SpacyLoad(t)
    \/ \E t \in Threads : SpacyLoadFails(t)
    \/ \E t \in Threads : GetNlpAssign(t)
    \/ \E t \in Threads : GetNlpReturn(t)
    \/ InstallModel

\* a fresh process: the module is imported, _nlp is None, no call of
\* rate_text is under way
InitTagger ==
    /\ text_kind = "str"
    /\ tagged_text = <<>>
    /\ speech_mode = FALSE
    /\ installed \in BOOLEAN
    /\ nlp = "None"
    /\ pc = "idle"
    /\ word_list = <<>>
    /\ i = 0
    /\ next_oid = 1
    /\ exc = "none"
    /\ result = NoResult
    /\ nlp_oid = 0
    /\ loads = 0
    /\ callers = NoCallers
    /\ finished = <<>>

SpecTagger == InitTagger /\ [][NextTagger]_vars

----------------------------------------------------------------------------
(* Vocabulary of the properties *)

\* the rule pass is over and nothing raised
PassDone == pc \in {"count", "returned"} /\ exc = "none" /\ text_kind = "str"

\* indices (0-based) of the items after the sentinels
LiveIndices == DEFAULT_ITEM_COUNT..(Len(word_list) - 1)

\* items the inversion rule has inserted so far
InsertedCopies == next_oid - 1 - Len(tagged_text)

----------------------------------------------------------------------------
(* C1: the rule pass terminates with a bounded sequence: an input item is
   moved at most once, so at no moment of the pass does the sequence hold
   more than the sentinels, the input items and one inserted copy per input
   item.  (An unbounded pass is one whose sequence outgrows every such
   bound: the cursor then never reaches the end.) *)
C1_LengthBounded ==
    pc \in {"loop", "A", "B", "C", "D", "E", "F", "G", "count"} =>
        /\ Len(word_list) <= DEFAULT_ITEM_COUNT + 2 * Len(tagged_text)
        /\ InsertedCopies <= Len(tagged_text)

(* C2: rate_text returns the number of items flagged is_word, the number of
   items flagged is_proposition, and as density their quotient when the
   word count is positive and 0.0 otherwise. *)
C2_CountsAndDensity ==
    pc = "returned" /\ exc = "none" /\ text_kind = "str" =>
        LET words == {k \in 1..Len(word_list) : word_list[k].is_word}
            props == {k \in 1..Len(word_list) : word_list[k].is_proposition}
        IN  /\ result.word_count = Cardinality(words)
            /\ result.proposition_count = Cardinality(props)
            /\ Cardinality(words) > 0 =>
                   result.density = [num |-> Cardinality(props),
                                     den |-> Cardinality(words)]
            /\ Cardinality(words) = 0 => result.density = [num |-> 0, den |-> 1]

\* a text has been rated with several words, some of them propositions
C2_Witness ==
    /\ pc = "returned"
    /\ exc = "none"
    /\ result.word_count >= 2
    /\ result.proposition_count >= 1
    /\ result.proposition_count < result.word_count

(* C3: a non-string text, or a missing tagger model, ends rate_text in an
   explicit error: the call never returns a result tuple for such a call. *)
C3_ErrorsPropagate ==
    (text_kind = "nonstring" \/ (text_kind = "str" /\ ~installed)) =>
        pc # "returned"

(* C4: when an exception is raised inside the try block, rate_text returns
   exactly (0, 0, 0.0, None). *)
C4_ExceptionGivesZeroResult ==
    pc = "returned" /\ exc # "none" =>
        /\ result.word_count = 0
        /\ result.proposition_count = 0
        /\ result.density = [num |-> 0, den |-> 1]
        /\ result.word_list = "None"

\* rate_text has returned after the tagger raised
C4_Witness == pc = "returned" /\ exc = "OSError"

\* the result for a text without content: zero counts, density 0.0 and a
\* WordList that holds the ten sentinels only
EmptyResult ==
    /\ result.word_count = 0
    /\ result.proposition_count = 0
    /\ result.density = [num |-> 0, den |-> 1]
    /\ result.word_list = "WordList"
    /\ Len(word_list) = 10
    /\ \A k \in 1..Len(word_list) : word_list[k].token = ""

(* C5, as stated: rate_text(None) and rate_text("") return zero counts,
   density 0.0 and a token list that is present and has no non-sentinel
   item. *)
C5_EmptyTextAlways ==
    pc = "returned" /\ (text_kind = "none" \/ (text_kind = "str" /\ tagged_text = <<>>))
        => EmptyResult

(* C5, amended: rate_text(None) always, and rate_text("") whenever the
   tagger model can be loaded, return zero counts, density 0.0 and a token
   list that is present and has no non-sentinel item. *)
C5_EmptyText ==
    pc = "returned" /\ (text_kind = "none" \/
                        (text_kind = "str" /\ installed /\ tagged_text = <<>>))
        => EmptyResult

\* the empty string has been rated with the tagger available
C5_Witness ==
    pc = "returned" /\ text_kind = "str" /\ installed /\ tagged_text = <<>>

\* the token carries the marker the inversion rule appends
IsMoved(item) == endswith(item.token, "/moved")

(* C6: after a complete pass every item neutralized by the inversion rule
   (token ending in "/moved") has tag "", is_word false and is_proposition
   false. *)
C6_MovedItemsNeutral ==
    PassDone =>
        \A k \in LiveIndices :
            IsMoved(At(word_list, k)) =>
                /\ At(word_list, k).tag = ""
                /\ ~At(word_list, k).is_word
                /\ ~At(word_list, k).is_proposition

\* a sentence is bounded by the sentence-end tag or an empty tag
IsBoundary(item) == item.tag = SENTENCE_END \/ item.tag = ""

\* index of the first item of the sentence that holds index k
SentenceFirst(wl, k) ==
    CHOOSE s \in 0..k :
        /\ \A j \in s..(k - 1) : ~IsBoundary(At(wl, j))
        /\ s = 0 \/ IsBoundary(At(wl, s - 1))

\* the forward scan of the inversion rule halts at this item
HaltsScan(item) == item.tag = SENTENCE_END \/ item.tag \in VERBS

\* t is the first index after k whose item halts the forward scan
IsFirstHalt(wl, k, t) ==
    /\ t > k
    /\ t < Len(wl)
    /\ HaltsScan(At(wl, t))
    /\ \A u \in (k + 1)..(t - 1) : ~HaltsScan(At(wl, u))

\* the inversion rule is about to run on an auxiliary that opens its
\* sentence, or whose sentence opens with an interrogative
InversionCase ==
    /\ pc = "B"
    /\ lower(At(word_list, i).token) \in AUXILIARY_VERBS
    /\ \/ SentenceFirst(word_list, i) = i
       \/ At(word_list, SentenceFirst(word_list, i)).tag \in INTERROGATIVES

(* C7: rule 101.  When the cursor item is an auxiliary form that is first in
   its sentence or whose sentence starts with an interrogative tag, and the
   first verb-tagged or sentence-end item after it is more than one position
   ahead, a copy (same token and tag, word, proposition, rule 101) is
   inserted immediately before that item, the original becomes tag "",
   not a word, not a proposition, token + "/moved"; the cursor is unchanged
   and the length grows by exactly 1. *)
C7_Inversion ==
    [][InversionCase =>
          \A t \in (i + 2)..(Len(word_list) - 1) :
              IsFirstHalt(word_list, i, t) =>
                  /\ Len(word_list') = Len(word_list) + 1
                  /\ i' = i
                  /\ At(word_list', t).token = At(word_list, i).token
                  /\ At(word_list', t).tag = At(word_list, i).tag
                  /\ At(word_list', t).is_word
                  /\ At(word_list', t).is_proposition
                  /\ At(word_list', t).rule_number = 101
                  /\ At(word_list', t + 1) = At(word_list, t)
                  /\ At(word_list', i).tag = ""
                  /\ ~At(word_list', i).is_word
                  /\ ~At(word_list', i).is_proposition
                  /\ At(word_list', i).token = At(word_list, i).token \o "/moved"
      ]_vars

\* the inversion rule has just moved an auxiliary of an interrogative
\* sentence in front of a later verb or sentence end
C7_Witness ==
    /\ pc = "C"
    /\ IsMoved(At(word_list, i))
    /\ At(word_list, i - 1).tag \in INTERROGATIVES
    /\ \E t \in (i + 2)..(Len(word_list) - 2) :
          /\ At(word_list, t).rule_number = 101
          /\ At(word_list, t).oid = next_oid - 1
          /\ HaltsScan(At(word_list, t + 1))

(* C8: whenever the inversion rule inserts a copy, no sentence-end item
   lies between the original auxiliary and the copy. *)
C8_NoMovePastSentenceEnd ==
    [][pc = "B" /\ Len(word_list') = Len(word_list) + 1 =>
          \A p \in 0..(Len(word_list') - 1) :
              At(word_list', p).oid = next_oid =>
                  \A j \in (i + 1)..(p - 1) :
                      At(word_list', j).tag # SENTENCE_END
      ]_vars

\* a copy has just been placed in front of a sentence end that is followed
\* by further items
C8_Witness ==
    /\ pc = "C"
    /\ IsMoved(At(word_list, i))
    /\ \E t \in (i + 2)..(Len(word_list) - 3) :
          /\ At(word_list, t).oid = next_oid - 1
          /\ At(word_list, t + 1).tag = SENTENCE_END

\* the token holds a space: only rule 003 produces such a token
HasSpace(token) == " " \in CharsOf(token)

\* rule 003 is about to run on two adjacent cardinals
AdjacentCardinals ==
    /\ pc = "A"
    /\ At(word_list, i).tag = "CD"
    /\ At(word_list, i - 1).tag = "CD"

\* rule 003 merges the cursor item into its predecessor, removes the cursor
\* slot and steps the cursor back
C9_Step ==
    AdjacentCardinals =>
        /\ Len(word_list') = Len(word_list) - 1
        /\ i' = i - 1
        /\ At(word_list', i - 1).token =
               At(word_list, i - 1).token \o " " \o At(word_list, i).token
        /\ \A j \in (i + 1)..(Len(word_list) - 1) :
               At(word_list', j - 1) = At(word_list, j)

\* after the pass no two adjacent items are both cardinals
NoAdjacentCardinalsLeft ==
    \A k \in LiveIndices :
        k + 1 < Len(word_list) =>
            ~(At(word_list, k).tag = "CD" /\ At(word_list, k + 1).tag = "CD")

(* C9, as stated: adjacent cardinals always collapse, so after a full pass
   a run of adjacent cardinals is one single item that counts as one
   word. *)
C9_RunIsOneWord ==
    PassDone =>
        /\ NoAdjacentCardinalsLeft
        /\ \A k \in LiveIndices :
               At(word_list, k).tag = "CD" /\ HasSpace(At(word_list, k).token)
                   => At(word_list, k).is_word

(* C9, amended: whenever the cursor is on a CD item whose predecessor is CD,
   the predecessor's token becomes "<predecessor> <current>", the current
   slot is removed (length - 1) and the cursor steps back; after a full pass
   a run of adjacent cardinals is one single item, which counts as one word
   exactly when the first token of the run starts with a letter or digit. *)
C9_CardinalsCollapse ==
    /\ [][C9_Step]_vars
    /\ [](PassDone =>
            /\ NoAdjacentCardinalsLeft
            /\ \A k \in LiveIndices :
                   At(word_list, k).tag = "CD" /\ HasSpace(At(word_list, k).token)
                       => (At(word_list, k).is_word
                             <=> isalnum(CharAt(At(word_list, k).token, 1))))

\* a text of three cardinals has been rated as one item and one word
C9_Witness ==
    /\ pc = "returned"
    /\ exc = "none"
    /\ Len(tagged_text) = 3
    /\ \A k \in 1..Len(tagged_text) : tagged_text[k][2] = "CD"
    /\ Len(word_list) = DEFAULT_ITEM_COUNT + 1
    /\ result.word_count = 1

(* C10: rule 004.  When the cursor is on a CD item, the previous token is
   non-empty and starts with a non-alphanumeric character and the item two
   back is CD, the item two back receives the three tokens concatenated, the
   separator slot and the current slot are removed (length - 2) and the
   cursor steps back two positions. *)
C10_SeparatorMerge ==
    [][/\ pc = "A"
       /\ At(word_list, i).tag = "CD"
       /\ At(word_list, i - 1).token # ""
       /\ ~isalnum(CharAt(At(word_list, i - 1).token, 1))
       /\ At(word_list, i - 2).tag = "CD"
       => /\ Len(word_list') = Len(word_list) - 2
          /\ i' = i - 2
          /\ At(word_list', i - 2).token =
                 At(word_list, i - 2).token \o At(word_list, i - 1).token
                     \o At(word_list, i).token
          /\ \A j \in (i + 1)..(Len(word_list) - 1) :
                 At(word_list', j - 2) = At(word_list, j)
      ]_vars

\* rule 004 has just merged "1", "/" and "2"
C10_Witness ==
    /\ pc = "B"
    /\ At(word_list, i).token = "1/2"
    /\ At(word_list, i).rule_number = 4
    /\ At(word_list, i).tag = "CD"

----------------------------------------------------------------------------
(* C11: for the tagged input This/DT is/VBZ 1/CD 2/CD a/DT sentence/NN
   with/IN numbers/NNS ./. the full pass yields word_count 7 and
   proposition_count 4. *)
C11_TwoNumbers ==
    pc = "returned" /\ exc = "none" /\ text_kind = "str" /\ tagged_text = TwoNumbers =>
        /\ result.word_count = 7
        /\ result.proposition_count = 4

\* the scenario text has been rated and its two cardinals were merged
C11_Witness ==
    /\ pc = "returned"
    /\ exc = "none"
    /\ tagged_text = TwoNumbers
    /\ Len(word_list) = DEFAULT_ITEM_COUNT + 8
    /\ At(word_list, DEFAULT_ITEM_COUNT + 2).token = "1 2"

(* C12: rule 054.  When the cursor item has a verb tag or an adverb tag and
   the previous item is the token 'that' or 'this' tagged DT, the word/tag
   group retags the previous item PRP, clears its is_proposition and gives
   it rule number 54. *)
C12_DeterminerToPronoun ==
    [][/\ pc = "A"
       /\ At(word_list, i).tag \in VERBS \cup ADVERBS
       /\ At(word_list, i - 1).lowercase_token \in {"that", "this"}
       /\ At(word_list, i - 1).tag = "DT"
       => /\ At(word_list', i - 1).tag = "PRP"
          /\ ~At(word_list', i - 1).is_proposition
          /\ At(word_list', i - 1).rule_number = 54
      ]_vars

(* C13: in non-speech mode, running Builder + rule pass again on the
   (token, tag) pairs of the non-sentinel items of a finished pass yields
   the word_count of the first pass. *)
C13_WordCountIdempotent ==
    [][pc = "count" /\ text_kind = "pairs" =>
          result'.word_count = result.word_count]_vars

\* the item is a sentinel as WordListItem() builds it
IsSentinel(item) ==
    /\ item.token = ""
    /\ item.tag = ""
    /\ ~item.is_word
    /\ ~item.is_proposition
    /\ item.rule_number = 0

\* wl is what the Builder makes of the pairs: ten sentinels, then one item
\* per pair, in order, with both flags false and rule number 0
BuiltFrom(wl, pairs) ==
    /\ Len(wl) = 10 + Len(pairs)
    /\ \A k \in 1..10 : IsSentinel(wl[k])
    /\ \A k \in 1..Len(pairs) :
          /\ wl[10 + k].token = pairs[k][1]
          /\ wl[10 + k].tag = pairs[k][2]
          /\ ~wl[10 + k].is_word
          /\ ~wl[10 + k].is_proposition
          /\ wl[10 + k].rule_number = 0

(* C14: for every list of n >= 0 (text, tag) pairs, WordList produces
   exactly 10 sentinel items followed by exactly n items in input order,
   each with the given token and tag, both flags false and rule number 0;
   for n = 0 (the tagging of an empty text, and WordList([]) for the
   text None) the sequence is exactly the 10 sentinels. *)
C14_Builder ==
    [][/\ pc = "build" => BuiltFrom(word_list', tagged_text)
       /\ pc = "call" /\ text_kind = "none" => BuiltFrom(word_list', <<>>)
      ]_vars

\* the Builder has just run on a text of several tokens
C14_Witness ==
    /\ pc = "loop"
    /\ i = 0
    /\ Len(tagged_text) >= 3
    /\ Len(word_list) = 10 + Len(tagged_text)
    /\ At(word_list, 12).token = tagged_text[3][1]
    /\ At(word_list, 12).rule_number = 0

\* the rule pass is running or has finished with a list
InPass ==
    \/ pc \in {"loop", "A", "B", "C", "D", "E", "F", "G", "count"}
    \/ pc = "returned" /\ result.word_list = "WordList"

(* C15: in every state of the rule pass over a Builder-produced sequence
   the first 10 positions still hold the sentinels, each exactly as the
   Builder made it (token "", tag "", both flags false, rule number 0): no
   rule deletes a sentinel, inserts before one, or writes a field of one. *)
C15_SentinelsIntact ==
    InPass =>
        /\ Len(word_list) >= DEFAULT_ITEM_COUNT
        /\ \A k \in 1..DEFAULT_ITEM_COUNT : word_list[k] = BlankItem

\* rules have written and deleted right behind the sentinels: 'you know'
\* was merged at the first position after them, and the filler rule has
\* run on the sentence end that follows
C15_Witness ==
    /\ pc = "returned"
    /\ speech_mode
    /\ Len(word_list) = DEFAULT_ITEM_COUNT + 2
    /\ At(word_list, DEFAULT_ITEM_COUNT).token = "you_know"
    /\ At(word_list, DEFAULT_ITEM_COUNT).rule_number = 634
    /\ At(word_list, DEFAULT_ITEM_COUNT + 1).tag = SENTENCE_END

\* the rule numbers of the speech rules
SpeechRules == {20, 21, 22, 23, 610, 632, 634}

(* C16: with speech_mode false no step of the pass applies a speech rule
   (repetition collapsing 20-23, filler-sentence blanking 610, 'like'
   blanking 632, the 'you know' merge 634): no item ever carries one of
   those rule numbers, and the step of handle_fillers leaves every item
   and the length alone and returns the index it was given (the loop then
   adds 1). *)
C16_SpeechOff ==
    /\ [](~speech_mode /\ InPass =>
            \A k \in 1..Len(word_list) : word_list[k].rule_number \notin SpeechRules)
    /\ [][~speech_mode /\ pc = "G" => word_list' = word_list /\ i' = i + 1]_vars

\* a non-speech pass has finished on "You know like ."
C16_Witness ==
    /\ pc = "returned"
    /\ ~speech_mode
    /\ Len(word_list) = DEFAULT_ITEM_COUNT + 4
    /\ At(word_list, DEFAULT_ITEM_COUNT).token = "You"
    /\ At(word_list, DEFAULT_ITEM_COUNT + 1).token = "know"
    /\ At(word_list, DEFAULT_ITEM_COUNT + 2).token = "like"
    /\ At(word_list, DEFAULT_ITEM_COUNT + 3).tag = SENTENCE_END

\* the tokens a..b of the text are a whole sentence, closed by a
\* sentence-end token, made only of interjections and filler words
FillerSentence(text, a, b) ==
    /\ a <= b
    /\ b < Len(text)
    /\ text[b + 1][2] = SENTENCE_END
    /\ a = 1 \/ text[a - 1][2] = SENTENCE_END
    /\ \A k \in a..b :
          /\ text[k][2] # SENTENCE_END
          /\ text[k][2] = "UH" \/ lower(text[k][1]) \in FILLER

(* C17: in speech mode, when every token of a sentence of the text is
   tagged UH or is a filler word, then after the pass no item of that
   sentence is a proposition, and each of its items that rule 002 marked a
   word and that only the filler rule blanked is still a word. *)
C17_FillerSentence ==
    PassDone /\ speech_mode =>
        \A a, b \in 1..Len(tagged_text) :
            FillerSentence(tagged_text, a, b) =>
                \A m \in 1..Len(word_list) :
                    word_list[m].oid \in a..b =>
                        /\ ~word_list[m].is_proposition
                        /\ (/\ word_list[m].rule_number = 610
                            /\ isalnum(CharAt(word_list[m].token, 1)))
                           => word_list[m].is_word

\* a noun-tagged item occurs among the next 5 items after index k, with no
\* sentence-end item before it
NounWithinFive(wl, k) ==
    \E j \in (k + 1)..(k + 5) :
        /\ j < Len(wl)
        /\ At(wl, j).tag \in NOUNS
        /\ \A u \in (k + 1)..(j - 1) : At(wl, u).tag # SENTENCE_END

\* a later rule of the group (212, 225 or 230) applies to the item at k
LaterRuleClears(wl, k) ==
    \/ /\ At(wl, k).lowercase_token \in NEGATIVE_POLARITY_1
       /\ search_backwards(wl, k, IsNot(wl)) # None
    \/ /\ At(wl, k).lowercase_token = "other"
       /\ At(wl, k - 1).lowercase_token = "each"
    \/ /\ At(wl, k).lowercase_token \in {"come", "many"}
       /\ At(wl, k - 1).lowercase_token = "how"

\* the text "4": one word and no proposition
LoneCardinal ==
    PassDone /\ pc = "returned" /\ tagged_text = <<<<"4", "CD">>>> =>
        result.word_count = 1 /\ result.proposition_count = 0

(* C18, as stated: right after the proposition-classification group has run
   with the cursor on a CD-tagged item, that item is a proposition if and
   only if a noun-tagged item occurs among the next 5 items with no
   sentence end before it; the text "4" is one word and no proposition. *)
C18_CardinalIffNounAhead ==
    /\ [][pc = "C" /\ At(word_list, i).tag = "CD" =>
             (At(word_list', i).is_proposition <=> NounWithinFive(word_list, i))]_vars
    /\ []LoneCardinal

(* C18, amended: the same, unless a later rule of the same group applies to
   the cardinal ('not ... any/many/much', 'each other', 'how come/many'):
   then the item is a non-proposition whatever follows it. *)
C18_CardinalProposition ==
    /\ [][pc = "C" /\ At(word_list, i).tag = "CD" =>
             IF LaterRuleClears(word_list, i)
             THEN ~At(word_list', i).is_proposition
             ELSE /\ At(word_list', i).is_proposition <=> NounWithinFive(word_list, i)
                  /\ At(word_list', i).rule_number = 210]_vars
    /\ []LoneCardinal

\* the group has just made a cardinal a proposition for a noun that is
\* exactly 5 items ahead
C18_Witness ==
    /\ pc = "D"
    /\ At(word_list, i).tag = "CD"
    /\ At(word_list, i).rule_number = 210
    /\ At(word_list, i).is_proposition
    /\ i + 5 < Len(word_list)
    /\ At(word_list, i + 5).tag \in NOUNS
    /\ \A u \in (i + 1)..(i + 4) : At(word_list, u).tag \notin NOUNS

\* the filler group is about to run in speech mode on 'know' after 'you'
YouKnowCase ==
    /\ pc = "G"
    /\ speech_mode
    /\ At(word_list, i).lowercase_token = "know"
    /\ At(word_list, i - 1).lowercase_token = "you"

\* the two items became one at the previous position, the successor slot
\* is gone and the function returned i - 1 (the loop then adds 1)
YouKnowMerged ==
    /\ Len(word_list') = Len(word_list) - 1
    /\ i' = (i - 1) + 1
    /\ At(word_list', i - 1).token = "you_know"
    /\ At(word_list', i - 1).tag = ""
    /\ At(word_list', i - 1).is_word
    /\ ~At(word_list', i - 1).is_proposition
    /\ At(word_list', i - 1).rule_number = 634
    /\ At(word_list', i - 1).oid = At(word_list, i - 1).oid
    /\ \A m \in 0..(i - 2) : At(word_list', m) = At(word_list, m)
    /\ \A m \in i..(Len(word_list') - 1) : At(word_list', m) = At(word_list, m + 1)

(* C19: rule 634.  In speech mode, when the cursor is on 'know' and the
   previous item's lowercase token is 'you', the two become one item at the
   previous position with token 'you_know', tag "", is_word true,
   is_proposition false and rule 634; the successor slot is removed
   (length - 1) and the cursor steps back onto the merged item; at the end
   of the pass that item is one word and not a proposition. *)
C19_YouKnow ==
    /\ [][YouKnowCase => YouKnowMerged]_vars
    /\ [](PassDone /\ speech_mode =>
            \A m \in 1..Len(word_list) :
                word_list[m].token = "you_know" =>
                    /\ word_list[m].is_word
                    /\ ~word_list[m].is_proposition
                    /\ word_list[m].tag = ""
                    /\ word_list[m].rule_number = 634)

\* 'You know' has just been merged in the middle of a text
C19_Witness ==
    /\ pc = "loop"
    /\ speech_mode
    /\ i > DEFAULT_ITEM_COUNT + 1
    /\ i < Len(word_list)
    /\ At(word_list, i - 1).token = "you_know"
    /\ At(word_list, i - 1).rule_number = 634
    /\ Len(word_list) = DEFAULT_ITEM_COUNT + Len(tagged_text) - 1

\* the items at the indices 0..k are the same objects before and after
\* the step
SamePrefix(k) ==
    /\ k < Len(word_list')
    /\ \A m \in 0..k : At(word_list', m).oid = At(word_list, m).oid

(* C20: structural edits happen only ahead of the cursor.  A rule group
   that deletes (groups A and G, after stepping the cursor back) leaves
   every item at or before the cursor it returns at its index; the
   inversion group inserts beyond cursor + 1, so the items up to cursor + 1
   keep their index and the cursor is unchanged; the other groups change no
   index at all. *)
C20_EditsAheadOfCursor ==
    [][/\ pc = "A" => SamePrefix(i')
       /\ pc = "B" => i' = i /\ SamePrefix(Min(i + 1, Len(word_list) - 1))
       /\ pc \in {"C", "D", "E", "F"} =>
              i' = i /\ Len(word_list') = Len(word_list) /\ SamePrefix(Len(word_list) - 1)
       /\ pc = "G" => SamePrefix(i' - 1)
      ]_vars

\* a pass in which the inversion rule has inserted a copy and a merge has
\* deleted a slot
C20_Witness ==
    /\ PassDone
    /\ InsertedCopies >= 1
    /\ Len(word_list) < DEFAULT_ITEM_COUNT + Len(tagged_text) + InsertedCopies

----------------------------------------------------------------------------
\* the item is tagged UH or its token is a filler word
IsFillerItem(item) == item.tag = "UH" \/ lower(item.token) \in FILLER

\* index of the first item after the sentinels that follows the last
\* sentence-end item before index k
AfterPreviousSentenceEnd(wl, k) ==
    CHOOSE s \in DEFAULT_ITEM_COUNT..k :
        /\ \A j \in s..(k - 1) : At(wl, j).tag # SENTENCE_END
        /\ s = DEFAULT_ITEM_COUNT \/ At(wl, s - 1).tag = SENTENCE_END

(* C21: rule 610 fires only for all-filler sentences.  When the filler group
   runs in speech mode with the cursor on a sentence-end item and the
   sentence (all items back to the previous sentence-end item) holds an item
   that is neither tagged UH nor a filler word, no item of the sentence is
   changed, also when an earlier rule has blanked an item in its middle. *)
C21_OnlyAllFillerSentences ==
    [][/\ pc = "G"
       /\ speech_mode
       /\ i >= DEFAULT_ITEM_COUNT
       /\ At(word_list, i).tag = SENTENCE_END
       /\ \E k \in AfterPreviousSentenceEnd(word_list, i)..(i - 1) :
              ~IsFillerItem(At(word_list, k))
       => \A k \in AfterPreviousSentenceEnd(word_list, i)..(i - 1) :
              At(word_list', k) = At(word_list, k)
      ]_vars

(* C22: lowercase_token is kept in sync with token: in every state of the
   pass every item satisfies lowercase_token = lowercase(token), also after
   the cardinal merges (rules 003/004), after the inversion rule appends
   "/moved" and after the 'you know' merge rewrites the token. *)
C22_LowercaseInSync ==
    InPass =>
        \A k \in 1..Len(word_list) :
            word_list[k].lowercase_token = lower(word_list[k].token)

\* the item at distance d before index k exists and no item from it up to
\* k - 1 has the sentence-end tag or an empty tag
ReachableBack(wl, k, d) ==
    /\ k - d >= 0
    /\ \A e \in 1..d : ~IsBoundary(At(wl, k - e))

\* the distances (at most far) of the items before k that satisfy the
\* condition and are reachable
MatchDistances(wl, k, matches, far) ==
    {d \in 1..far : ReachableBack(wl, k, d) /\ (k - d) \in matches}

\* index of the nearest such item, or None
NearestBack(wl, k, matches, far) ==
    IF MatchDistances(wl, k, matches, far) = {} THEN None
    ELSE k - (CHOOSE d \in MatchDistances(wl, k, matches, far) :
                 \A e \in MatchDistances(wl, k, matches, far) : d <= e)

(* C23: search_backwards(word_list, i, cond) returns the nearest item at a
   distance d before i, 1 <= d <= 10, that satisfies cond and is neither
   separated from i by, nor itself, an item whose tag is sentence-end or
   empty; it returns None when there is no such item within 10 positions,
   and it never returns a sentinel. *)
C23_SearchBackwards ==
    pc = "F" =>
        LET found == search_backwards(word_list, i, IsFor(word_list))
        IN  /\ found = NearestBack(word_list, i, IsFor(word_list), 10)
            /\ found \notin 0..(DEFAULT_ITEM_COUNT - 1)

\* the seven rule functions are called in the order of the list
GroupsInOrder ==
    /\ pc = "loop" /\ i < Len(word_list) /\ At(word_list, i).token # "" => pc' = "A"
    /\ pc = "A" => pc' = "B"
    /\ pc = "B" => pc' = "C"
    /\ pc = "C" => pc' = "D"
    /\ pc = "D" => pc' = "E"
    /\ pc = "E" => pc' = "F"
    /\ pc = "F" => pc' = "G"
    /\ pc = "G" => pc' = "loop"

\* an item with an empty token is stepped over
EmptyTokenSkipped ==
    pc = "loop" /\ i < Len(word_list) /\ At(word_list, i).token = "" =>
        /\ word_list' = word_list
        /\ i' = i + 1
        /\ pc' = "loop"

\* group C runs on the item rule 003 has merged in this iteration (stepping
\* the cursor back onto it): rule 210 decides its proposition status
MergedItemRedecided ==
    pc = "C" /\ At(word_list, i).tag = "CD" /\ At(word_list, i).rule_number = 3 =>
        /\ i' = i
        /\ At(word_list', i).rule_number = 210
        /\ At(word_list', i).is_proposition <=> NounWithinFive(word_list, i)

\* group C runs on a '^' that the tagger did not tag as a sentence end:
\* rule 001 has retagged it, and rules 206/207 treat it as one
CaretSeenAsSentenceEnd ==
    /\ pc = "C"
    /\ At(word_list, i).token = "^"
    /\ tagged_text[At(word_list, i).oid][2] # SENTENCE_END
    => /\ At(word_list, i - 1).tag = "TO" =>
              /\ ~At(word_list', i - 1).is_proposition
              /\ At(word_list', i - 1).rule_number = 206
       /\ At(word_list, i - 1).tag = "MD" =>
              /\ At(word_list', i - 1).is_proposition
              /\ At(word_list', i - 1).rule_number = 207

(* C24: the rule groups run in the fixed order A, B, C, D, E, F, G at every
   item with a non-empty token, each on the index the previous one returned.
   So after a cardinal merge has stepped the cursor back in group A, the
   later groups of the same iteration act on the merged item (rule 210
   decides its proposition status anew), and a '^' retagged as sentence end
   by rule 001 counts as a sentence end for rules 206/207 in the same
   iteration.  Items with an empty token are skipped with no change. *)
C24_GroupOrder ==
    /\ [][GroupsInOrder]_vars
    /\ [][EmptyTokenSkipped]_vars
    /\ [][MergedItemRedecided]_vars
    /\ [][CaretSeenAsSentenceEnd]_vars

\* the proposition group has just run on a merged cardinal, after a '^'
\* behind a 'to' earlier in the text
C24_Witness ==
    /\ pc = "D"
    /\ At(word_list, i).token = "1 1"
    /\ At(word_list, i).rule_number = 210
    /\ \E k \in DEFAULT_ITEM_COUNT..(i - 1) :
          /\ At(word_list, k).token = "^"
          /\ At(word_list, k).tag = SENTENCE_END
          /\ At(word_list, k - 1).rule_number = 206

\* the item right after index k halts the forward scan, or k is the last
\* index of the sequence
HaltOneAhead(wl, k) == k + 1 >= Len(wl) \/ HaltsScan(At(wl, k + 1))

\* the inversion rule does not apply to the cursor item
NoInversionCase ==
    \/ lower(At(word_list, i).token) \notin AUXILIARY_VERBS
    \/ /\ SentenceFirst(word_list, i) # i
       /\ At(word_list, SentenceFirst(word_list, i)).tag \notin INTERROGATIVES
    \/ HaltOneAhead(word_list, i)

(* C25: when the cursor item is not an auxiliary form, or is neither the
   first item of its sentence nor in a sentence whose first item is
   interrogative-tagged, or the first verb-tagged or sentence-end item (or
   the end of the sequence) is exactly one position ahead, adjust_word_order
   changes no item, inserts nothing and returns the same index.  The
   single-token text 'Are' is one word and one proposition. *)
C25_NoInversion ==
    /\ [][pc = "B" /\ NoInversionCase =>
             /\ word_list' = word_list
             /\ i' = i
             /\ next_oid' = next_oid]_vars
    /\ [](PassDone /\ pc = "returned" /\ tagged_text = <<<<"Are", "VBP">>>> =>
             /\ result.word_count = 1
             /\ result.proposition_count = 1
             /\ Len(word_list) = DEFAULT_ITEM_COUNT + 1)

\* the inversion group has just left alone an auxiliary in the middle of a
\* sentence that does not open with an interrogative, although no verb or
\* sentence end follows it directly
C25_Witness ==
    /\ pc = "C"
    /\ At(word_list, i).token = "Are"
    /\ At(word_list, i).oid <= Len(tagged_text)
    /\ At(word_list, i - 1).tag = "DT"
    /\ At(word_list, SentenceFirst(word_list, i)).tag = "DT"
    /\ i + 1 < Len(word_list)
    /\ At(word_list, i + 1).tag = "DT"
    /\ InsertedCopies = 0

\* the rule numbers each classification group assigns
GroupRules(group) ==
    CASE group = "C" -> {200, 201, 203, 204, 206, 207, 210, 211, 212, 213, 214, 225, 230}
      [] group = "D" -> {301, 302, 310, 311}
      [] group = "E" -> {401, 402, 405}
      [] group = "F" -> {510, 511}

\* the step keeps the cursor, the length, and the identity, token and
\* is_word of every item
ClassificationOnly ==
    /\ i' = i
    /\ next_oid' = next_oid
    /\ Len(word_list') = Len(word_list)
    /\ \A k \in 1..Len(word_list) :
          /\ word_list'[k].oid = word_list[k].oid
          /\ word_list'[k].token = word_list[k].token
          /\ word_list'[k].lowercase_token = word_list[k].lowercase_token
          /\ word_list'[k].is_word = word_list[k].is_word

\* an item the step changes carries the number of a rule of the group
ChangedOnlyByRule(group) ==
    \A k \in 1..Len(word_list) :
        word_list'[k] # word_list[k] => word_list'[k].rule_number \in GroupRules(group)

\* the cursor is on a plain noun that follows another plain noun or opens
\* the text: no pattern of the four groups matches
PlainNounCase ==
    /\ At(word_list, i).token = "cats"
    /\ At(word_list, i).tag = "NNS"
    /\ At(word_list, i - 1).token \in {"cats", ""}

(* C26: groups C, D, E and F are classification-only: each returns the index
   it was given, never inserts or deletes an item and never changes a token
   or an is_word flag; an item they change carries the number of one of
   their rules, and when none of their patterns matches they leave
   is_proposition, tag and rule number of every item unchanged. *)
C26_ClassificationOnly ==
    [][(pc \in {"C", "D", "E", "F"}) =>
          /\ ClassificationOnly
          /\ ChangedOnlyByRule(pc)
          /\ PlainNounCase => word_list' = word_list
      ]_vars

\* groups C to F have run on "how many" (retagged by rule 230) and have
\* marked a 'to' before a base-form verb
C26_Witness ==
    /\ pc = "G"
    /\ At(word_list, i).tag = "VB"
    /\ At(word_list, i - 1).rule_number = 510
    /\ \E k \in DEFAULT_ITEM_COUNT..(i - 1) :
          /\ At(word_list, k).token = "many"
          /\ At(word_list, k).tag = "WRB"
          /\ At(word_list, k).rule_number = 230

\* the list and the cursor at the point of group A where rule 020 is tried:
\* rules 001 to 004 have run
AtRule020 == Rule004(Rule003(Rule002(Rule001(Pass(word_list, i)))))

\* rule 050 applies to the item: it becomes a proposition tagged NOT
IsNegation(item) ==
    \/ lower(item.token) = "not"
    \/ endswith(lower(item.token), "n't")
    \/ lower(item.token) \in NT

\* group A runs in speech mode and, when rule 020 is tried, the cursor
\* item's token is a repetition of the previous item's token
RepetitionCase ==
    /\ pc = "A"
    /\ speech_mode
    /\ is_repetition(At(AtRule020.wl, AtRule020.i - 1).token,
                     At(AtRule020.wl, AtRule020.i).token)

\* the previous item is blanked with rule number 20 and the current item
\* keeps its flags
FirstOccurrenceBlanked ==
    LET c == AtRule020.i
        before == At(AtRule020.wl, c)
    IN  /\ i' = c
        /\ At(word_list', c - 1).tag = ""
        /\ ~At(word_list', c - 1).is_word
        /\ ~At(word_list', c - 1).is_proposition
        /\ At(word_list', c - 1).rule_number = 20
        /\ At(word_list', c - 1).token = At(AtRule020.wl, c - 1).token
        /\ At(word_list', c).token = before.token
        /\ At(word_list', c).is_word = before.is_word
        /\ ~IsNegation(before) =>
               /\ At(word_list', c).is_proposition = before.is_proposition
               /\ At(word_list', c).tag = before.tag

(* C27: rule 020.  In speech mode, when the cursor item's token is a
   repetition of the previous item's token (equal ignoring case, or the
   fuzzy test succeeds), the previous item gets tag "", is_word false,
   is_proposition false and rule number 20, and the current item keeps its
   own flags; at the end of the pass an item blanked by rule 20 is not a
   word, so "The the" is one word. *)
C27_Repetition ==
    /\ [][RepetitionCase => FirstOccurrenceBlanked]_vars
    /\ [](PassDone /\ speech_mode =>
            /\ \A k \in 1..Len(word_list) :
                   word_list[k].rule_number = 20 =>
                       /\ ~word_list[k].is_word
                       /\ ~word_list[k].is_proposition
                       /\ word_list[k].tag = ""
            /\ pc = "returned" /\ tagged_text = <<<<"The", "DT">>, <<"the", "DT">>>>
                   => result.word_count = 1)

\* rule 020 has just blanked a misspelt first occurrence in the middle of
\* a text, found by the fuzzy test
C27_Witness ==
    /\ pc = "B"
    /\ speech_mode
    /\ i > DEFAULT_ITEM_COUNT + 1
    /\ At(word_list, i).token = "cats"
    /\ At(word_list, i).is_word
    /\ At(word_list, i - 1).token = "catss"
    /\ At(word_list, i - 1).rule_number = 20
    /\ ~At(word_list, i - 1).is_word

\* the token is an article
IsArticle(item) == lower(item.token) \in {"the", "a", "an"}

\* no rule of group C after rule 200 writes the proposition flag of the
\* item: it is no article, no cardinal, and none of the words that rules
\* 204, 212, 225 and 230 look for
NoOverride(item) ==
    /\ ~IsArticle(item)
    /\ item.tag # "CD"
    /\ lower(item.token) \notin
           ({"then", "else", "other", "come", "many"} \cup NEGATIVE_POLARITY_1)

\* group C leaves an article at the cursor a non-proposition
ArticleNotProposition ==
    pc = "C" /\ IsArticle(At(word_list, i)) => ~At(word_list', i).is_proposition

\* group C leaves an item with a proposition-bearing tag and no override a
\* proposition by rule 200
DefaultProposition ==
    /\ pc = "C"
    /\ At(word_list, i).tag \in DEFAULT_PROPOSITIONS
    /\ NoOverride(At(word_list, i))
    => /\ At(word_list', i).is_proposition
       /\ At(word_list', i).rule_number = 200

(* C28: whenever the proposition-classification group has run with the
   cursor on an item whose lowercase token is 'the', 'a' or 'an', that item
   is a non-proposition when the group returns, whatever its tag and
   whatever rule 200 or a later check of the group did; an item whose tag is
   proposition-bearing and that matches no override is a proposition with
   rule number 200. *)
C28_ArticlesNotPropositions ==
    /\ [][ArticleNotProposition]_vars
    /\ [][DefaultProposition]_vars

\* the linking-verb group is about to run on a determiner or predeterminer
\* that follows an adverb that follows a linking-verb form
LinkingAdverbDeterminer ==
    /\ pc = "D"
    /\ At(word_list, i).tag \in {"DT", "PDT"}
    /\ At(word_list, i - 1).tag \in ADVERBS
    /\ lower(At(word_list, i - 2).token) \in LINKING_VERBS

(* C29: rule 310.  When the cursor item is tagged DT or PDT, the previous
   item has an adverb tag and the item two back is a linking-verb form, the
   linking verb, which rule 301 had made a non-proposition when the cursor
   was on the adverb, and the adverb are both propositions with rule number
   310 after the linking-verb group. *)
C29_LinkingAdverbDeterminer ==
    [][LinkingAdverbDeterminer =>
          /\ ~At(word_list, i - 2).is_proposition
          /\ At(word_list, i - 2).rule_number = 301
          /\ At(word_list', i - 1).is_proposition
          /\ At(word_list', i - 1).rule_number = 310
          /\ At(word_list', i - 2).is_proposition
          /\ At(word_list', i - 2).rule_number = 310
          /\ At(word_list', i) = At(word_list, i)
          /\ i' = i
      ]_vars

\* the group has just run on a predeterminer after "seems now"
C29_Witness ==
    /\ pc = "E"
    /\ At(word_list, i).tag = "PDT"
    /\ At(word_list, i - 1).tag = "RB"
    /\ At(word_list, i - 1).rule_number = 310
    /\ At(word_list, i - 2).token = "seems"
    /\ At(word_list, i - 2).is_proposition
    /\ At(word_list, i - 2).rule_number = 310

\* the token is an auxiliary form
IsAuxiliary(item) == lower(item.token) \in AUXILIARY_VERBS

\* aux + 'not', or aux + verb: the auxiliary is not a proposition
AuxThenNotOrVerb ==
    /\ pc = "E"
    /\ lower(At(word_list, i).token) = "not" \/ At(word_list, i).tag \in VERBS
    /\ IsAuxiliary(At(word_list, i - 1))
    => /\ ~At(word_list', i - 1).is_proposition
       /\ At(word_list', i - 1).rule_number =
              (IF At(word_list, i).tag \in VERBS THEN 402 ELSE 401)
       /\ i' = i

\* aux + NOT/adverb + verb: the auxiliary alone becomes a non-proposition;
\* the NOT/adverb item (itself no auxiliary form) and the verb are left as
\* they are
AuxThenNotOrAdverbThenVerb ==
    /\ pc = "E"
    /\ At(word_list, i).tag \in VERBS
    /\ At(word_list, i - 1).tag = "NOT" \/ At(word_list, i - 1).tag \in ADVERBS
    /\ IsAuxiliary(At(word_list, i - 2))
    => /\ ~At(word_list', i - 2).is_proposition
       /\ At(word_list', i - 2).rule_number = 405
       /\ At(word_list', i) = At(word_list, i)
       /\ ~IsAuxiliary(At(word_list, i - 1)) =>
              At(word_list', i - 1) = At(word_list, i - 1)
       /\ i' = i

(* C30: group E.  When the cursor item is 'not' (in any case) or has a verb
   tag and the previous item's lowercase token is an auxiliary form, the
   previous item becomes a non-proposition (rules 401/402); when the cursor
   item has a verb tag, the previous item is tagged NOT or adverb and the
   item two back is an auxiliary form, only the item two back becomes a
   non-proposition (rule 405), the NOT/adverb item and the verb keep their
   proposition status. *)
C30_Auxiliaries ==
    /\ [][AuxThenNotOrVerb]_vars
    /\ [][AuxThenNotOrAdverbThenVerb]_vars

\* the group has just run on the verb of "has NOT gone": the auxiliary is
\* a non-proposition by rule 405, 'NOT' and the verb are propositions
C30_Witness ==
    /\ pc = "F"
    /\ At(word_list, i).token = "gone"
    /\ At(word_list, i).is_proposition
    /\ At(word_list, i - 1).token = "NOT"
    /\ At(word_list, i - 1).tag = "NOT"
    /\ At(word_list, i - 1).is_proposition
    /\ At(word_list, i - 2).token = "has"
    /\ ~At(word_list, i - 2).is_proposition
    /\ At(word_list, i - 2).rule_number = 405

\* the list and the cursor at the point of group C where rule 211 is tried:
\* rules 200 to 210 have run
AtRule211 ==
    Rule210(Rule207(Rule206(Rule204(Rule203(Rule201(Rule200(
        Pass(word_list, i))))))))

\* what the bounded backward search for a NOT-tagged item returns
NotBehind == search_backwards(word_list, i, IsNot(word_list))

\* the cursor is on 'unless' and the search finds a NOT item: that item
\* becomes a non-proposition by rule 211, the current item is as rules 200
\* to 210 left it
UnlessAfterNot ==
    /\ pc = "C"
    /\ lower(At(word_list, i).token) \in NEGATIVE_POLARITY_2
    /\ NotBehind # None
    => /\ ~At(word_list', NotBehind).is_proposition
       /\ At(word_list', NotBehind).rule_number = 211
       /\ At(word_list', NotBehind).tag = "NOT"
       /\ At(word_list', i) = At(AtRule211.wl, i)
       /\ i' = i

\* the cursor is on 'any', 'much', 'many', 'yet' or 'anymore' and the search
\* finds a NOT item: the current item becomes a non-proposition by rule 212
\* (renumbered 230 when it is the 'many' of "how many"), the NOT item is
\* left as it is
AnyAfterNot ==
    /\ pc = "C"
    /\ lower(At(word_list, i).token) \in NEGATIVE_POLARITY_1
    /\ NotBehind # None
    => /\ ~At(word_list', i).is_proposition
       /\ At(word_list', i).rule_number =
              (IF /\ lower(At(word_list, i).token) = "many"
                  /\ lower(At(word_list, i - 1).token) = "how"
               THEN 230 ELSE 212)
       /\ At(word_list', NotBehind) = At(word_list, NotBehind)
       /\ i' = i

\* the cursor is on a polarity word and the search finds no NOT item: the
\* current item is as the other rules leave it, not marked by rule 211 or
\* 212, and every other item is unchanged
PolarityWithoutNot ==
    /\ pc = "C"
    /\ lower(At(word_list, i).token) \in NEGATIVE_POLARITY_1 \cup NEGATIVE_POLARITY_2
    /\ NotBehind = None
    => /\ \A k \in 1..Len(word_list) :
              k # i + 1 => word_list'[k] = word_list[k]
       /\ At(word_list', i) = At(Rule230(AtRule211).wl, i)
       /\ At(word_list', i).rule_number \notin {211, 212}
       /\ i' = i

(* C31: negative-polarity pairs.  With the cursor on 'unless' and a
   NOT-tagged item found by the bounded backward search, that NOT item
   becomes a non-proposition with rule number 211 and the current item is not
   changed by the rule; with the cursor on 'any', 'much', 'many', 'yet' or
   'anymore' and a NOT-tagged item found, the current item becomes a
   non-proposition by rule 212 and the NOT item is left as it was; when the
   search finds no NOT item neither rule changes anything. *)
C31_NegativePolarity ==
    /\ [][UnlessAfterNot]_vars
    /\ [][AnyAfterNot]_vars
    /\ [][PolarityWithoutNot]_vars

\* group C has just run on the 'any' of "not unless not any": the nearer
\* 'not' is a proposition tagged NOT, 'any' is a non-proposition by rule
\* 212, and the farther 'not' was made a non-proposition by rule 211
C31_Witness ==
    /\ pc = "D"
    /\ At(word_list, i).token = "any"
    /\ ~At(word_list, i).is_proposition
    /\ At(word_list, i).rule_number = 212
    /\ At(word_list, i - 1).tag = "NOT"
    /\ At(word_list, i - 1).is_proposition
    /\ At(word_list, i - 2).token = "unless"
    /\ At(word_list, i - 2).is_proposition
    /\ At(word_list, i - 3).tag = "NOT"
    /\ ~At(word_list, i - 3).is_proposition
    /\ At(word_list, i - 3).rule_number = 211

\* group A runs on a negation: the item becomes a proposition tagged NOT
\* with rule number 50, in place
NegationMarked ==
    pc = "A" /\ IsNegation(At(word_list, i))
    => /\ i' = i
       /\ At(word_list', i).is_proposition
       /\ At(word_list', i).tag = "NOT"
       /\ At(word_list', i).rule_number = 50
       /\ At(word_list', i).token = At(word_list, i).token

\* between group A and the end of group C the negation at the cursor is a
\* proposition tagged NOT with rule number 50
NegationKept ==
    pc \in {"B", "C", "D"} /\ IsNegation(At(word_list, i))
    => /\ At(word_list, i).is_proposition
       /\ At(word_list, i).tag = "NOT"
       /\ At(word_list, i).rule_number = 50

(* C32: rule 050.  An item whose lowercase token is 'not', ends in "n't" or
   is in the informal-negation set gets is_proposition true, tag NOT and
   rule number 50 when group A runs on it, and it is still a proposition
   after groups B and C of the same iteration (no override of these groups
   applies to the item the cursor is on). *)
C32_Negation ==
    /\ [][NegationMarked]_vars
    /\ [](NegationKept)

\* group C has just run on the contraction of "is Don't": it is a
\* proposition tagged NOT by rule 50
C32_Witness ==
    /\ pc = "D"
    /\ At(word_list, i).token = "Don't"
    /\ At(word_list, i).tag = "NOT"
    /\ At(word_list, i).is_proposition
    /\ At(word_list, i).rule_number = 50
    /\ At(word_list, i - 1).lowercase_token = "is"

\* what the bounded backward search for a 'for' returns
ForBehind == search_backwards(word_list, i, IsFor(word_list))

\* group F runs on a base-form verb after a TO item: the TO item becomes a
\* non-proposition by rule 510, a 'for' the search finds becomes a
\* non-proposition by rule 511, and nothing else changes
ToBeforeVerb ==
    /\ pc = "F"
    /\ At(word_list, i).tag = "VB"
    /\ At(word_list, i - 1).tag = "TO"
    => /\ i' = i
       /\ Len(word_list') = Len(word_list)
       /\ ~At(word_list', i - 1).is_proposition
       /\ At(word_list', i - 1).rule_number =
              (IF ForBehind = i - 1 THEN 511 ELSE 510)
       /\ ForBehind # None =>
              /\ ~At(word_list', ForBehind).is_proposition
              /\ At(word_list', ForBehind).rule_number = 511
       /\ \A k \in 0..(Len(word_list) - 1) :
              k \notin {i - 1, ForBehind} => At(word_list', k) = At(word_list, k)

\* group F runs on any other pair of items: nothing changes
NoToBeforeVerb ==
    /\ pc = "F"
    /\ At(word_list, i).tag # "VB" \/ At(word_list, i - 1).tag # "TO"
    => /\ i' = i
       /\ word_list' = word_list

(* C33: group F.  When the cursor item is tagged VB and the previous item is
   tagged TO, the previous item becomes a non-proposition (rule 510) and a
   'for' found by the bounded backward search becomes a non-proposition
   (rule 511); when the cursor item is not tagged VB or the previous item is
   not tagged TO the group changes nothing. *)
C33_ToConstructions ==
    /\ [][ToBeforeVerb]_vars
    /\ [][NoToBeforeVerb]_vars

\* group F has just run on "for ... to go" with the 'for' nine items back,
\* the farthest the search reaches
C33_Witness ==
    /\ pc = "G"
    /\ At(word_list, i).tag = "VB"
    /\ At(word_list, i - 1).tag = "TO"
    /\ ~At(word_list, i - 1).is_proposition
    /\ At(word_list, i - 1).rule_number = 510
    /\ At(word_list, i - 9).token = "for"
    /\ ~At(word_list, i - 9).is_proposition
    /\ At(word_list, i - 9).rule_number = 511

\* indices before k of the items tagged as a sentence end
SentenceEndsBefore(wl, k) == {j \in 0..(k - 1) : At(wl, j).tag = SENTENCE_END}

\* the first item of the sentence containing position k: one past the
\* nearest sentence-end item before k, or the first index after the
\* sentinels when there is none
FirstOfSentence(wl, k) ==
    IF SentenceEndsBefore(wl, k) = {}
    THEN DEFAULT_ITEM_COUNT
    ELSE 1 + CHOOSE j \in SentenceEndsBefore(wl, k) :
                 \A m \in SentenceEndsBefore(wl, k) : m <= j

(* C34: at every moment of the rule pass and for every position k after the
   sentinels, beginning_of_sentence(items, k) is the index of the first item
   of the sentence containing k: one past the nearest sentence-end-tagged
   item before k, or the first non-sentinel index when no sentence-end item
   precedes k; for k at the first item of a sentence it is k. *)
C34_BeginningOfSentence ==
    pc \in {"loop", "A", "B", "C", "D", "E", "F", "G", "count"} =>
        \A k \in LiveIndices :
            beginning_of_sentence(word_list, k) = FirstOfSentence(word_list, k)

\* the threads that have called get_nlp
HaveCalled == {t \in Threads : callers[t].calls > 0}

\* the objects the calls have returned so far
Returned == {callers[t].got : t \in Threads} \ {0}

\* _nlp is None exactly as long as no object has been stored
NlpHoldsObject == (nlp = "None") <=> (nlp_oid = 0)

\* the model is loaded at most once for each thread that has called, so at
\* most once in a process where one thread calls
LoadedOncePerCaller ==
    /\ loads <= Cardinality(HaveCalled)
    /\ Cardinality(HaveCalled) <= 1 => Cardinality(Returned) <= 1

\* once _nlp is set it stays set, and a call that tests it then goes on to
\* return without loading
NoLoadOnceSet ==
    nlp # "None" =>
        /\ nlp' # "None"
        /\ loads' > loads => \E t \in Threads : callers[t].pc = "load"
        /\ \A t \in Threads :
              callers[t].pc = "test" => callers'[t].pc \in {"test", "return"}

\* a call returns the object _nlp holds at that moment, one that spacy.load
\* returned
ReturnsHeldObject ==
    \A t \in Threads :
        callers[t].pc = "return" /\ callers'[t].pc = "idle" =>
            /\ callers'[t].got = nlp_oid
            /\ callers'[t].got \in 1..loads
            /\ callers'[t].outcome = "model"

\* a failed load raises OSError and stores nothing
FailedLoadStoresNothing ==
    \A t \in Threads :
        callers[t].pc = "load" /\ ~installed =>
            /\ nlp' = nlp
            /\ nlp_oid' = nlp_oid
            /\ loads' = loads
            /\ callers'[t].pc # "load" =>
                   /\ callers'[t].outcome = "OSError"
                   /\ callers'[t].pc = "idle"

(* C35, the original statement: the model is loaded at most once per
   process, also under concurrent first calls from several threads, and
   every call returns the same object. *)
C35_LoadedAtMostOnce ==
    /\ loads <= 1
    /\ Cardinality(Returned) <= 1

(* C35: the tagger model is lazily initialized: get_nlp loads the model when
   it finds _nlp unset, at most once for each thread that has called, hence
   once in a single-threaded process, where every call returns the same
   object; once _nlp is set it is never unset and a call that tests it
   afterwards returns the object it holds without loading; a failed load
   leaves _nlp as it was and raises the OSError naming the missing model. *)
C35_LazyModel ==
    /\ [](NlpHoldsObject /\ LoadedOncePerCaller)
    /\ [][NoLoadOnceSet]_vars
    /\ [][ReturnsHeldObject]_vars
    /\ [][FailedLoadStoresNothing]_vars

\* two threads have made their first calls at the same time: each loaded a
\* model and they were handed different objects; the first thread's second
\* call returned the object _nlp now holds, without loading
C35_Witness ==
    /\ loads = 2
    /\ callers[1].calls = 2
    /\ callers[1].pc = "idle"
    /\ callers[1].outcome = "model"
    /\ callers[1].got = nlp_oid
    /\ callers[2].pc = "idle"
    /\ callers[2].outcome = "model"
    /\ callers[2].got # callers[1].got

\* what the caller reads off the items: token, tag, the two flags and the
\* rule number
Observed(wl) ==
    [k \in 1..Len(wl) |->
        <<wl[k].token, wl[k].tag, wl[k].is_word, wl[k].is_proposition,
          wl[k].rule_number>>]

(* C36: the rule pass is deterministic and keeps no state between calls:
   when a call of Builder + rule pass in a process has returned, its final
   sequence (tokens, tags, flags, rule numbers) and its counts are those of
   every earlier call in the process that was given the same (token, tag)
   pairs and the same speech-mode flag, whatever other calls came before or
   in between. *)
C36_Deterministic ==
    pc = "returned" /\ exc = "none" /\ text_kind = "str" =>
        \A r \in 1..Len(finished) :
            finished[r].pairs = tagged_text /\ finished[r].speech = speech_mode
            => /\ Observed(finished[r].items) = Observed(word_list)
               /\ finished[r].counts = result

\* the third call of a process has returned what the first returned for the
\* same text, "Is the the", in speech mode, after a call on another text in
\* the other mode
C36_Witness ==
    /\ pc = "returned"
    /\ Len(finished) = 2
    /\ tagged_text = <<<<"Is", "VBZ">>, <<"the", "DT">>, <<"the", "DT">>>>
    /\ speech_mode
    /\ finished[1].pairs = tagged_text
    /\ finished[1].speech
    /\ finished[2].pairs = OtherText
    /\ ~finished[2].speech
    /\ Observed(finished[1].items) = Observed(word_list)
    /\ Len(word_list) = DEFAULT_ITEM_COUNT + 4

\* the identities of the items after position k (0-based), in order
OidsAfter(wl, k) == [m \in 1..(Len(wl) - k - 1) |-> wl[m + k + 1].oid]

\* a sequence of identities without the identity x
RECURSIVE WithoutOid(_, _)
WithoutOid(oids, x) ==
    IF oids = <<>> THEN <<>>
    ELSE IF Head(oids) = x THEN WithoutOid(Tail(oids), x)
    ELSE <<Head(oids)>> \o WithoutOid(Tail(oids), x)

\* the index the rule function of the step returned: the model's step of
\* group G includes the i += 1 that ends the iteration
Returned_i == IF pc = "G" THEN i' - 1 ELSE i'

\* the items the step deleted, and those it inserted
Deleted == Len(word_list) - Len(word_list')

\* the step steps the cursor back by as many items as it deletes, and the
\* items deleted are those between the returned index and the old cursor:
\* the items up to the returned index and those that followed the cursor
\* stay, in order
StepsBackByDeleted ==
    /\ i - Returned_i = Deleted
    /\ \A k \in 0..Returned_i : At(word_list', k).oid = At(word_list, k).oid
    /\ OidsAfter(word_list', Returned_i) = OidsAfter(word_list, i)

\* group B returns the index it was given; it deletes nothing and all it
\* inserts is one new item, somewhere after the item that follows the cursor
InsertionKeepsIndex ==
    /\ i' = i
    /\ Len(word_list') - Len(word_list) = next_oid' - next_oid
    /\ next_oid' - next_oid \in {0, 1}
    /\ WithoutOid(OidsAfter(word_list', i), next_oid) = OidsAfter(word_list, i)
    /\ i + 1 < Len(word_list) => At(word_list', i + 1).oid = At(word_list, i + 1).oid

(* C37: cursor/length accounting.  For every call of a rule group the
   returned index is smaller than the index passed in by exactly the number
   of items the call deleted: 0 to 3 for group A, 0 or 1 for group G, 0 for
   groups C to F, which delete nothing; an insertion by group B does not
   change the index.  The items after the cursor keep their order and none is
   deleted, so the i += 1 that ends the iteration puts the cursor on the item
   that followed the last consumed item and no surviving item is skipped. *)
C37_CursorAccounting ==
    /\ [][(pc = "A") => StepsBackByDeleted /\ Deleted \in 0..3]_vars
    /\ [][(pc = "B") => InsertionKeepsIndex]_vars
    /\ [][(pc \in {"C", "D", "E", "F"}) => StepsBackByDeleted /\ Deleted = 0]_vars
    /\ [][(pc = "G") =>
             /\ StepsBackByDeleted /\ Deleted \in 0..1
             /\ i < Len(word_list) - 1 =>
                    At(word_list', i').oid = At(word_list, i + 1).oid
             /\ i = Len(word_list) - 1 => i' = Len(word_list')]_vars

\* group A has just merged "1/1" with rule 004 after an inserted copy moved
\* ahead: two items were deleted, the cursor stepped back by two onto the
\* merged item and the item that followed is now right after it
C37_Witness ==
    /\ pc = "B"
    /\ At(word_list, i).rule_number = 4
    /\ At(word_list, i).token = "1/1"
    /\ Len(word_list) = DEFAULT_ITEM_COUNT + Len(tagged_text) + InsertedCopies - 2
    /\ i + 1 < Len(word_list)
    /\ At(word_list, i + 1).oid = At(word_list, i).oid + 3
    /\ InsertedCopies = 1


----------------------------------------------------------------------------
(* C38: the indices the rule pass uses *)

\* the item a rule function treats as current: behind the sentinels, inside
\* the list, with a token whose first character can be read
CursorOk(st) ==
    /\ st.i >= DEFAULT_ITEM_COUNT
    /\ st.i < Len(st.wl)
    /\ At(st.wl, st.i).token # ""

\* the lowest index read from cursor k: word_list[i - 4], the last index of
\* range(i - 1, max(i - MAX_LOOKBACK, -1), -1), and the result of the
\* sentence-start scan
BackwardOk(st) ==
    /\ st.i - 4 >= 0
    /\ Max(st.i - MAX_LOOKBACK, -1) + 1 >= 0
    /\ beginning_of_sentence(st.wl, st.i) \in 1..st.i

\* the steps of identify_words_and_adjust_tags that move the cursor: each
\* deletion removes items that exist, and leaves the cursor on a live item
\* whose predecessors exist
CardinalStepsOk ==
    LET s2 == Rule002(Rule001(Pass(word_list, i)))
        s3 == Rule003(s2)
        s4 == Rule004(s3)
    IN  /\ CursorOk(s3) /\ BackwardOk(s3)
        /\ CursorOk(s4) /\ BackwardOk(s4)
        /\ Len(s3.wl) < Len(s2.wl) =>
              /\ s3.i = s2.i - 1
              /\ s3.i + 1 < Len(s2.wl)
        /\ Len(s4.wl) < Len(s3.wl) =>
              /\ s4.i = s3.i - 2
              /\ s4.i + 3 <= Len(s3.wl)

\* adjust_word_order: the forward scan and the insertion stay inside the list
InversionOk ==
    InversionApplies(word_list, i) =>
        /\ i + 1 <= Len(word_list)
        /\ TargetScan(word_list, i + 1) \in (i + 1)..Len(word_list)

\* rule 210: range(i + 1, min(len(word_list), i + MAX_LOOKAHEAD + 1))
LookaheadOk ==
    \A j \in (i + 1)..(Min(Len(word_list), i + MAX_LOOKAHEAD + 1) - 1) :
        j < Len(word_list)

\* handle_fillers: rule 610 works on range(bos, i), rule 634 deletes the
\* item behind the new cursor
FillersOk ==
    LET s == Rule632(Rule610(Pass(word_list, i)))
        g == handle_fillers(word_list, i, speech_mode)
    IN  /\ CursorOk(s) /\ BackwardOk(s)
        /\ CursorOk(g) /\ BackwardOk(g)
        /\ Len(g.wl) < Len(s.wl) =>
              /\ g.i = s.i - 1
              /\ g.i + 1 < Len(s.wl)

\* C38: during the pass no negative and no out-of-range index is used: at
\* every rule function the current item is at index >= 10, inside the list,
\* with a non-empty token; every backward access (i - 1 .. i - 4, the
\* backward search, the sentence-start scan) is at an index >= 0, every
\* forward access, insertion and deletion is inside the current list, also
\* right after rules 003, 004 and 634 have stepped the cursor back
C38_IndicesInRange ==
    (pc \in {"A", "B", "C", "D", "E", "F", "G"}) =>
        /\ CursorOk(Pass(word_list, i))
        /\ BackwardOk(Pass(word_list, i))
        /\ (pc = "A") => CardinalStepsOk
        /\ (pc = "B") => InversionOk
        /\ (pc = "C") => LookaheadOk
        /\ (pc = "G") => FillersOk

\* "1 / 1" alone: rule 004 has stepped the cursor back by two onto the
\* first item behind the sentinels, which is now the last item of the list
C38_Witness ==
    /\ pc = "B"
    /\ i = DEFAULT_ITEM_COUNT
    /\ Len(word_list) = DEFAULT_ITEM_COUNT + 1
    /\ At(word_list, i).rule_number = 4
    /\ At(word_list, i - 1).token = ""

====
